---------------------------- MODULE Spec2Model ----------------------------
(***************************************************************************)
(* Model of the topology discovery engine of AFT                           *)
(* (src/tools/topology_builder.py, class TopologyBuilder).                 *)
(*                                                                         *)
(* Two specifications live in this module:                                 *)
(*   Spec       a whole discovery run (build_topology): the orchestrator,  *)
(*              the two probe-batch processes and the rack they observe;   *)
(*   SpecProbe  one probe batch (_get_active_PEM_device_files or           *)
(*              _get_active_serial_device_files) applied to bounded inputs.*)
(* Python lists are sequences, dictionaries are functions whose domain is  *)
(* the set of keys.  A device file name is the pair <<stem, number>>, so   *)
(* that "ttyUSB3" is <<"ttyUSB", 3>> and startswith("ttyUSB") is a test of *)
(* the stem.                                                               *)
(***************************************************************************)
EXTENDS Integers, Sequences, FiniteSets, TLC

(***************************************************************************)
(* Bounds of the model                                                     *)
(***************************************************************************)
\* number of relay channels of a rack
NumChannels == 2
\* ttyUSB device files of a rack whose behaviour is unconstrained
MaxPorts == 3
\* network endpoints of a rack whose behaviour is unconstrained
MaxEndpoints == 2
\* USB relays of a rack whose behaviour is unconstrained
MaxRelays == 1
\* ttyUSB candidates of a single probe batch in SpecProbe
MaxProbeFiles == 3
\* largest wait budget handed to a probe batch in SpecProbe
MaxWait == 2
\* lines of a kernel log in SpecEdison
MaxLines == 3
\* latest second of a kernel log in SpecEdison
MaxTime == 2
\* records of a result list in SpecAssemble
MaxRecords == 3

(***************************************************************************)
(* Program constants                                                       *)
(***************************************************************************)
\* p[0].join(1)
JoinTimeout == 1
\* sleep(10) at the head of both probe-batch processes
BootDelay == 10
\* wait_duration of the baseline PEM batch
BaselinePemWait == 80
\* wait_duration of the baseline serial batch
BaselineSerialWait == 20
\* wait_duration of the batches of an elimination round
RoundWait == 30
\* device["serial_bauds"]
SerialBauds == 115200

(***************************************************************************)
(* Generic helpers                                                         *)
(***************************************************************************)
Max(a, b) == IF a >= b THEN a ELSE b

Range(s) == {s[i] : i \in DOMAIN s}

NoDuplicates(s) == \A i, j \in DOMAIN s : i # j => s[i] # s[j]

\* all orderings of the finite set S as sequences
Orderings(S) ==
    {s \in [1..Cardinality(S) -> S] : Range(s) = S}

\* list(S) for a set S of device file names iterated in this order
ListOfSet(S, setorder) == SelectSeq(setorder, LAMBDA f : f \in S)

\* list.remove(x): drops the first element equal to x
RECURSIVE ListRemove(_, _)
ListRemove(s, x) ==
    IF s = <<>> THEN <<>>
    ELSE IF Head(s) = x THEN Tail(s)
    ELSE <<Head(s)>> \o ListRemove(Tail(s), x)

\* d[k] = v on a dictionary
DictSet(d, k, v) ==
    [x \in (DOMAIN d) \cup {k} |-> IF x = k THEN v ELSE d[x]]

EmptyDict == [x \in {} |-> 0]

(***************************************************************************)
(* Device files                                                            *)
(***************************************************************************)
TtyUSB(n) == <<"ttyUSB", n>>

OtherFile == <<"sda", 0>>

\* usb.startswith("ttyUSB")
IsTtyUSB(f) == f[1] = "ttyUSB"

\* "/dev/" + name
DevPath(f) == <<"/dev/", f>>

\* usb_files = [usb for usb in device_files if usb.startswith("ttyUSB")]
UsbFiles(device_files) == SelectSeq(device_files, IsTtyUSB)


(***************************************************************************)
(* Probe batches (PortSetProbe)                                            *)
(*                                                                         *)
(* The hardware decides what a probe worker does: it returns (exit "ok")   *)
(* or raises (exit "error") dur seconds after its start, or it blocks for  *)
(* ever (hang).  For the serial batch `open` tells whether serial.Serial() *)
(* on the device file succeeds; the PEM client opens the file inside the   *)
(* worker, where a failure is a worker that raises.                        *)
(***************************************************************************)
Behaviour(hang, dur, exit, open) ==
    [hang |-> hang, dur |-> dur, exit |-> exit, open |-> open]

Early == Behaviour(FALSE, 0, "ok", TRUE)

Hang == Behaviour(TRUE, 0, "ok", TRUE)

\* Process.is_alive() at time t of a worker started at time start
IsAlive(b, start, t) == b.hang \/ start + b.dur > t

\* the time at which p[0].join(1), called at time now, returns
JoinReturns(b, start, now) ==
    IF IsAlive(b, start, now + JoinTimeout)
    THEN now + JoinTimeout
    ELSE Max(now, start + b.dur)

\* the running worker is left out and left running
VerdictNoTerminate(alive) == [terminate |-> FALSE, append |-> ~alive]

\* the polarity inverted: the running worker is the positive
VerdictInverted(alive) == [terminate |-> ~alive, append |-> alive]

\* "if p[0].is_alive(): p[0].terminate() else: ports.append(p[1])"
Verdict(alive) == [terminate |-> alive, append |-> ~alive]

\* the loop "for p in process_usb_pairs" / "for p in processes": one entry
\* per worker, with the time of its is_alive() test and what was done
RECURSIVE JoinLoop(_, _, _, _)
JoinLoop(usb_files, beh, start, now) ==
    IF usb_files = <<>> THEN <<>>
    ELSE LET usb == Head(usb_files)
             t == JoinReturns(beh[usb], start, now)
             v == Verdict(IsAlive(beh[usb], start, t))
         IN  <<[usb |-> usb, checked |-> t,
                terminated |-> v.terminate, appended |-> v.append]>>
             \o JoinLoop(Tail(usb_files), beh, start, t)

\* the ports list built by the join loop
RECURSIVE Appended(_)
Appended(workers) ==
    IF workers = <<>> THEN <<>>
    ELSE (IF Head(workers).appended THEN <<Head(workers).usb>> ELSE <<>>)
         \o Appended(Tail(workers))

\* _get_active_PEM_device_files: put tells whether queue.put was reached,
\* ports is the list put, workers the bookkeeping of the join loop,
\* started the workers started, opened/closed the serial handles
GetActivePEMDeviceFiles(wait_duration, device_files, beh) ==
    LET usb_files == UsbFiles(device_files)
        start == BootDelay
        workers == JoinLoop(usb_files, beh, start, start + wait_duration)
    IN  [put |-> TRUE, ports |-> Appended(workers), workers |-> workers,
         started |-> usb_files, start |-> start,
         opened |-> <<>>, closed |-> <<>>]

\* index of the first device file serial.Serial() cannot open, 0 if none
RECURSIVE FirstOpenFailure(_, _, _)
FirstOpenFailure(usb_files, beh, i) ==
    IF i > Len(usb_files) THEN 0
    ELSE IF ~beh[usb_files[i]].open THEN i
    ELSE FirstOpenFailure(usb_files, beh, i + 1)

\* _get_active_serial_device_files: serial.Serial() raising in the start
\* loop ends the batch process before queue.put
GetActiveSerialDeviceFiles(wait_duration, device_files, beh) ==
    LET usb_files == UsbFiles(device_files)
        start == BootDelay
        k == FirstOpenFailure(usb_files, beh, 1)
        workers == JoinLoop(usb_files, beh, start, start + wait_duration)
    IN  IF k = 0
        THEN [put |-> TRUE, ports |-> Appended(workers), workers |-> workers,
              started |-> usb_files, start |-> start,
              opened |-> usb_files, closed |-> usb_files]
        ELSE [put |-> FALSE, ports |-> <<>>, workers |-> <<>>,
              started |-> SubSeq(usb_files, 1, k - 1), start |-> start,
              opened |-> SubSeq(usb_files, 1, k - 1), closed |-> <<>>]

GetActiveDeviceFiles(kind, wait_duration, device_files, beh) ==
    IF kind = "pem"
    THEN GetActivePEMDeviceFiles(wait_duration, device_files, beh)
    ELSE GetActiveSerialDeviceFiles(wait_duration, device_files, beh)

(***************************************************************************)
(* Configuration (/etc/aft/topology_builder.json) and network endpoints    *)
(***************************************************************************)
\* self._config["edison"]["ip_start"]
IpStart == 100

\* self._config["edison"]["subnet_prefix"]
SubnetPrefix == "192.168."

\* self._config["edison"]["model"]
EdisonModel == "edison"

\* self._config["pc_devices"]
PcDevices ==
    <<[model |-> "MinnowboardMAX", mac_prefixes |-> <<"aa:bb">>]>>

\* str.lower() on the MAC prefixes of the model
Lower(str) ==
    CASE str = "AA:BB" -> "aa:bb"
      [] str = "CC:DD" -> "cc:dd"
      [] OTHER -> str

\* dev.get_host_ip() of the EdisonDevice opened on this subnet
HostIp(subnet_ip) == <<"host", subnet_ip>>

\* the k-th Edison entry of _get_network_configs
Edison(k) ==
    [type |-> "edison", usb_path |-> <<"2-1.", k>>,
     ip |-> HostIp(IpStart + 4 * (k - 1)),
     subnet |-> <<SubnetPrefix, IpStart + 4 * (k - 1)>>]

\* a PC entry of _get_network_configs; a MAC is <<prefix, rest>>
Pc(k) ==
    [type |-> "PC",
     mac |-> <<(IF k % 2 = 1 THEN "AA:BB" ELSE "cc:dd"), k>>,
     ip |-> <<"lease", k>>]

(***************************************************************************)
(* The kernel log.  A line "[sec.usec] usb <usb_port>: <text>" is kept as  *)
(* the parts the code reads from it; local_execute("dmesg").split("\n")    *)
(* ends with an empty line.  The log of a running host is never empty.     *)
(***************************************************************************)
LogLine(sec, usec, text, usb_port) ==
    [empty |-> FALSE, sec |-> sec, usec |-> usec, text |-> text,
     usb_port |-> usb_port]

EmptyLine ==
    [empty |-> TRUE, sec |-> 0, usec |-> 0, text |-> "",
     usb_port |-> <<"", 0>>]

\* what the kernel prints when an Edison enumerates
ProductText == "New USB device found, idVendor=8086, idProduct=e005"

EdisonText == "Product: Edison"

\* local_execute("dmesg").split("\n")
Dmesg(lines) == lines \o <<EmptyLine>>

\* "idVendor=8086" and "idProduct=e005" in line
HasProduct(line) == line.text = ProductText

\* "Edison" in line
HasEdison(line) == line.text = EdisonText

\* _dmesg_line_timestamp: the seconds of the line, -1 for an empty line
DmesgLineTimestamp(line) == IF line.empty THEN -1 ELSE line.sec

\* _dmesg_newest_timestamp: the timestamp of the last line that is not empty
RECURSIVE DmesgNewestTimestamp(_)
DmesgNewestTimestamp(dmesg_lines) ==
    IF ~dmesg_lines[Len(dmesg_lines)].empty
    THEN DmesgLineTimestamp(dmesg_lines[Len(dmesg_lines)])
    ELSE DmesgNewestTimestamp(SubSeq(dmesg_lines, 1, Len(dmesg_lines) - 1))

(***************************************************************************)
(* _get_cutters                                                            *)
(***************************************************************************)
\* the channels of the Cleware cutters, socket by socket
RECURSIVE ClewareCutters(_)
ClewareCutters(clewares) ==
    IF clewares = <<>> THEN <<>>
    ELSE [i \in 1..Head(clewares).sockets |->
            [type |-> "cleware", cutter |-> Head(clewares).cutter,
             channel |-> i - 1]]
         \o ClewareCutters(Tail(clewares))

\* self._config["edison"]["power_cutters"]
PowerCutters == <<[vendor |-> "0403", model |-> "FT232R"]>>

\* usb_path_list: a ttyUSB file of `ls /dev` is listed once for every
\* configured cutter whose model udevadm names for it
\* (cutter["vendor"] and cutter["model"] in info)
RECURSIVE UsbPathList(_, _, _)
UsbPathList(ls, power_cutters, info) ==
    IF ls = <<>> THEN <<>>
    ELSE (IF IsTtyUSB(Head(ls))
          THEN [j \in 1..Len(SelectSeq(power_cutters,
                        LAMBDA c : c.vendor # "" /\ c.model = info[Head(ls)]))
                  |-> DevPath(Head(ls))]
          ELSE <<>>)
         \o UsbPathList(Tail(ls), power_cutters, info)

\* Usbrelay({"cutter": path}).get_cutter_config()
RelayConfig(path) == [type |-> "usbrelay", cutter |-> path]

\* the loop of _get_usb_cutters over possible_cutters: the relay is appended
\* once for every line newer than the timestamp that names the product.
\* log holds the lines printed before the relay is connected, Head(lines)
\* the lines printed in the 5 s after
RECURSIVE UsbCutters(_, _, _)
UsbCutters(possible_cutters, lines, log) ==
    IF possible_cutters = <<>> THEN <<>>
    ELSE LET cutter == Head(possible_cutters)
             timestamp == DmesgNewestTimestamp(Dmesg(log))
             after == log \o Head(lines)
             hits == SelectSeq(Dmesg(after),
                        LAMBDA line :
                            /\ DmesgLineTimestamp(line) > timestamp
                            /\ HasProduct(line))
         IN  [j \in 1..Len(hits) |-> RelayConfig(cutter)]
             \o UsbCutters(Tail(possible_cutters), Tail(lines), after)

\* _get_cutters: the Cleware channels, then the USB relays found
GetCuttersList(clewares, possible_cutters, lines, log) ==
    ClewareCutters(clewares) \o UsbCutters(possible_cutters, lines, log)

(***************************************************************************)
(* _get_network_configs                                                    *)
(***************************************************************************)
\* a line of the same second as the window start counts as new
AfterWindowInclusive(line, timestamp) ==
    DmesgLineTimestamp(line) >= timestamp

\* self._dmesg_line_timestamp(line) > self._timestamp
AfterWindow(line, timestamp) == DmesgLineTimestamp(line) > timestamp

\* edison_lines: the lines naming an Edison that came after the window start
EdisonLines(dmesg_lines, timestamp) ==
    SelectSeq(dmesg_lines,
              LAMBDA line : HasEdison(line) /\ AfterWindow(line, timestamp))

\* every opener is given the start value
SubnetSlotReused(k) == IpStart

\* ip of the k-th opener, k counted from 0: ip starts at ip_start and
\* "ip += 4" follows every Process(...).start()
SubnetSlot(k) == IpStart + 4 * k

\* what connection_opener puts on the queue:
\* (usb_port, dev.get_host_ip(), args["network_subnet"])
ConnectionOpener(subnet_ip, line) ==
    <<line.usb_port, HostIp(subnet_ip), <<SubnetPrefix, subnet_ip>>>>

\* _get_edison_configs.  order is the order in which the openers finish,
\* outcome[k] tells whether the k-th opener puts its result, raises or
\* blocks.  p.join() and ip_queue.get() take no timeout: the function
\* returns only if every opener puts its result, and then the results are in
\* the order of the puts.
GetEdisonConfigs(dmesg_lines, timestamp, order, outcome) ==
    LET edison_lines == EdisonLines(dmesg_lines, timestamp)
        n == Len(edison_lines)
    IN  [returns |-> \A k \in 1..n : outcome[k] = "put",
         lines |-> edison_lines,
         openers |-> [k \in 1..n |->
                        [subnet_ip |-> SubnetSlot(k - 1),
                         line |-> edison_lines[k]]],
         ip_addresses |->
            [j \in 1..n |->
                ConnectionOpener(SubnetSlot(order[j] - 1),
                                 edison_lines[order[j]])]]

\* _get_pc_like_configs: (mac, ip) of every lease
GetPcLikeConfigs(leases) ==
    [i \in 1..Len(leases) |-> <<leases[i].mac, leases[i].ip>>]

\* _get_network_configs: the Edison entries, then the PC entries
GetNetworkConfigsList(edison_configs, pc_like_configs) ==
    [i \in 1..Len(edison_configs) |->
        [type |-> "edison", usb_path |-> edison_configs[i][1],
         ip |-> edison_configs[i][2], subnet |-> edison_configs[i][3]]]
    \o [i \in 1..Len(pc_like_configs) |->
        [type |-> "PC", mac |-> pc_like_configs[i][1],
         ip |-> pc_like_configs[i][2]]]

(***************************************************************************)
(* _create_configuration                                                   *)
(***************************************************************************)
\* str.upper() on a model name
Upper(str) ==
    CASE str = "MinnowboardMAX" -> "MINNOWBOARDMAX"
      [] str = "edison" -> "EDISON"
      [] str = "Edison" -> "EDISON"
      [] OTHER -> str

\* device["model"].upper() + "_" + str(dev_id)
SectionName(model, dev_id) == <<Upper(model), "_", dev_id>>

\* the loop of _create_configuration from record i on.  device_ids maps a
\* model to its next number, sections are the sections added so far;
\* config.add_section raises DuplicateSectionError for a name already there,
\* which ends the loop and the run with no configuration.
RECURSIVE AddSections(_, _, _, _)
AddSections(devices, i, device_ids, sections) ==
    IF i > Len(devices) THEN [raised |-> FALSE, sections |-> sections]
    ELSE IF "model" \notin DOMAIN devices[i]
    THEN AddSections(devices, i + 1, device_ids, sections)
    ELSE LET model == devices[i].model
             dev_id == IF model \in DOMAIN device_ids
                       THEN device_ids[model] ELSE 1
             section == SectionName(model, dev_id)
         IN  IF \E j \in 1..Len(sections) : sections[j].name = section
             THEN [raised |-> TRUE, sections |-> sections]
             ELSE AddSections(devices, i + 1,
                              DictSet(device_ids, model, dev_id + 1),
                              Append(sections,
                                     [name |-> section, record |-> i,
                                      items |-> devices[i]]))

\* _create_configuration
CreateConfiguration(devices) == AddSections(devices, 1, EmptyDict, <<>>)

(***************************************************************************)
(* The rack: what the harness is wired to.                                 *)
(*   cutters  the channels, in the order _get_cutters returns them         *)
(*   files    os.listdir("/dev/")                                          *)
(*   net      what _get_network_configs finds under full power             *)
(*   kind     what sits behind each ttyUSB file: a PEM, a serial console   *)
(*            or something else; under full power a PEM answers the PEM    *)
(*            probe and a console answers the serial probe                 *)
(*   setorder the order in which this interpreter iterates a set of        *)
(*            device file names (it depends on the hash seed of the run)   *)
(*   clewares what ClewareCutter.get_available_cutters() returns           *)
(*   info     the udevadm properties of each ttyUSB file, as the set of    *)
(*            strings the code looks for in them                           *)
(*   relay_lines  per candidate relay, the lines the kernel prints in the  *)
(*            5 s after it is connected                                    *)
(*   boot_log the kernel log before the run                                *)
(*   attach_log  the lines the kernel prints after the baseline power      *)
(*            cycle                                                        *)
(*   leases   the DHCP leases the PC-like endpoints hold                   *)
(* A faithful rack (ideal) wires every channel to one PEM port, one serial *)
(* port and one endpoint, which answer exactly while the channel is        *)
(* connected.  On any other rack, once channels are being disconnected,    *)
(* every probe and every reachability test may come out either way.  The   *)
(* code never looks into a device file's name beyond its stem, so the      *)
(* unconstrained racks are taken up to a renaming of the ttyUSB files:     *)
(* the PEMs first, then the consoles in the order the set iterates them,   *)
(* then the rest.                                                          *)
(***************************************************************************)
CutterConfig(i) ==
    [type |-> "cleware", cutter |-> <<"563">>, channel |-> i - 1]

CutterList(n) == [i \in 1..n |-> CutterConfig(i)]

\* ClewareCutter.get_available_cutters(): one cutter of n sockets
Clewares(n) ==
    IF n = 0 THEN <<>> ELSE <<[cutter |-> <<"563">>, sockets |-> n]>>

Bijections(S, T) == {f \in [S -> T] : Range(f) = T}

RECURSIVE SumSeq(_)
SumSeq(s) == IF s = <<>> THEN 0 ELSE Head(s) + SumSeq(Tail(s))

\* the log before the run: an Edison that enumerated long ago
BootLog == <<LogLine(1, 0, EdisonText, <<"2-1.", 9>>)>>

\* what the kernel prints in the 5 s after the i-th relay is connected when
\* hits boards enumerate in that time
RelayLines(i, hits) ==
    [j \in 1..(2 * hits) |->
        LogLine(10 * i + (j + 1) \div 2, 0,
                IF j % 2 = 1 THEN ProductText ELSE EdisonText,
                <<"2-1.", 9>>)]

\* what the kernel prints after the baseline power cycle: the Edisons of
\* the rack enumerate, each in a second of its own
RECURSIVE AttachLog(_, _)
AttachLog(net, k) ==
    IF net = <<>> THEN <<>>
    ELSE IF Head(net).type # "edison" THEN AttachLog(Tail(net), k)
    ELSE <<LogLine(100 + k, 0, ProductText, Head(net).usb_path),
           LogLine(100 + k, 1, EdisonText, Head(net).usb_path)>>
         \o AttachLog(Tail(net), k + 1)

\* /var/lib/misc/dnsmasq.leases under full power
RECURSIVE Leases(_)
Leases(net) ==
    IF net = <<>> THEN <<>>
    ELSE (IF Head(net).type = "PC"
          THEN <<[mac |-> Head(net).mac, ip |-> Head(net).ip]>> ELSE <<>>)
         \o Leases(Tail(net))

IdealFiles(n) == [i \in 1..(2 * n) |-> TtyUSB(i - 1)] \o <<OtherFile>>

IdealNet(n) == [i \in 1..n |-> IF i = 1 THEN Edison(1) ELSE Pc(i - 1)]

IdealRacks ==
    UNION {
      {[ideal |-> TRUE, cutters |-> CutterList(n), files |-> IdealFiles(n),
        net |-> IdealNet(n), pem |-> p, serial |-> s, netch |-> c,
        kind |-> [f \in {TtyUSB(k) : k \in 0..(2 * n - 1)} |->
                    IF f[2] < n THEN "pem" ELSE "serial"],
        setorder |-> <<OtherFile>> \o [i \in 1..n |-> TtyUSB(i - 1)] \o o,
        clewares |-> Clewares(n),
        info |-> [f \in Range(IdealFiles(n)) |-> "other"],
        relay_lines |-> <<>>,
        boot_log |-> BootLog, attach_log |-> AttachLog(IdealNet(n), 0),
        leases |-> Leases(IdealNet(n))] :
          p \in Bijections(1..n, {TtyUSB(k) : k \in 0..(n - 1)}),
          s \in Bijections(1..n, {TtyUSB(k) : k \in n..(2 * n - 1)}),
          c \in Bijections(1..n, 1..n),
          o \in Orderings({TtyUSB(k) : k \in n..(2 * n - 1)})}
      : n \in 1..NumChannels }

FreeFiles == [i \in 1..MaxPorts |-> TtyUSB(i - 1)] \o <<OtherFile>>

\* np PEMs, then ns consoles, then other ttyUSB devices
FreeKind(np, ns) ==
    [f \in {TtyUSB(k) : k \in 0..(MaxPorts - 1)} |->
        IF f[2] < np THEN "pem"
        ELSE IF f[2] < np + ns THEN "serial"
        ELSE "other"]

\* the Edison entries come first (ip.extend(edison_ip) precedes the leases);
\* a rack may hold fewer endpoints than channels
FreeNet(n) == [i \in 1..n |-> IF i = 1 THEN Edison(1) ELSE Pc(i - 1)]

FreeNets == {FreeNet(n) : n \in 0..MaxEndpoints}

\* the USB relays of a rack are ttyUSB devices that are neither PEM nor
\* console: the files from the np + ns-th on
FreeInfo(first, nu) ==
    [f \in Range(FreeFiles) |->
        IF IsTtyUSB(f) /\ f[2] >= first /\ f[2] < first + nu
        THEN "FT232R" ELSE "other"]

\* hits[i] boards enumerate after the i-th relay is connected.  The cutter
\* list is NumChannels long, the Cleware sockets filling what the relays
\* leave.  The racks with relays hold one Edison and no other endpoint.
FreeHits(np, ns) ==
    UNION {{h \in [1..nu -> 0..NumChannels] : SumSeq(h) <= NumChannels} :
           nu \in 0..(IF MaxRelays <= MaxPorts - np - ns
                      THEN MaxRelays ELSE MaxPorts - np - ns)}

FreeRack(np, ns, nc, h) ==
    [ideal |-> FALSE,
     cutters |-> CutterList(NumChannels - SumSeq(h))
                 \o [i \in 1..Len(h) |->
                       RelayConfig(DevPath(TtyUSB(np + ns + i - 1)))],
     files |-> FreeFiles, net |-> nc,
     pem |-> <<>>, serial |-> <<>>, netch |-> <<>>,
     kind |-> FreeKind(np, ns),
     setorder |-> <<OtherFile>> \o [i \in 1..MaxPorts |-> TtyUSB(i - 1)],
     clewares |-> Clewares(NumChannels - SumSeq(h)),
     info |-> FreeInfo(np + ns, Len(h)),
     relay_lines |-> [i \in 1..Len(h) |-> RelayLines(i, h[i])],
     boot_log |-> BootLog, attach_log |-> AttachLog(nc, 0),
     leases |-> Leases(nc)]

FreeRacks ==
    UNION {
      {FreeRack(t[1], t[2], x[1], x[2]) :
          x \in {y \in FreeNets \X FreeHits(t[1], t[2]) :
                    y[2] # <<>> => y[1] = FreeNet(1)}}
      : t \in {u \in (0..MaxPorts) \X (0..MaxPorts) : u[1] + u[2] <= MaxPorts} }

Racks == IdealRacks \cup FreeRacks

(***************************************************************************)
(* State                                                                   *)
(***************************************************************************)
VARIABLES
    rack,             \* the hardware the run observes
    pc,               \* position of build_topology
    cutters,          \* local cutters of build_topology
    power,            \* power[ch]: channel ch (of rack.cutters) is connected
    device_files,     \* local device_files of build_topology
    _timestamp,        \* self._timestamp
    _pem_ports,        \* self._pem_ports
    _serial_ports,     \* self._serial_ports
    _network_configs,  \* self._network_configs
    _devices,          \* self._devices
    idx,              \* position of "for cutter in cutters"
    device,           \* local device of _get_device_configuration
    pem_results,      \* the PEM batch: its process and its Queue
    serial_results,   \* the serial batch: its process and its Queue
    dead_ports,       \* dead_ports of the round, per pool kind
    checked,          \* endpoints handed to _check_connectivity in the round
    warnings,         \* logger.warning calls of the round
    events,           \* what the orchestrator did so far, in order
    configuration,    \* local configuration of build_topology
    _dryrun,           \* self._dryrun
    topology_file,    \* what was written to /etc/aft/devices/topology.cfg
    probe             \* the unit under test of SpecProbe, SpecEdison,
                      \* SpecAssemble, SpecFlash, SpecMain, SpecWait

runVars ==
    <<rack, pc, cutters, power, device_files, _timestamp, _pem_ports,
      _serial_ports, _network_configs, _devices, idx, device, pem_results,
      serial_results, dead_ports, checked, warnings, events, configuration,
      _dryrun, topology_file>>

vars == <<runVars, probe>>

\* a batch that was never launched
NoBatch == [proc |-> "none", files |-> <<>>, wait |-> 0, queue |-> <<>>]

\* Queue() and Process(...).start() of _find_active_*_ports_from
Launch(wait_duration, files) ==
    [proc |-> "running", files |-> files, wait |-> wait_duration,
     queue |-> <<>>]

NoDead == [serial |-> {}, pem |-> {}]

NoProbe == [pc |-> "off"]

\* the physical channel a cutter of the list switches: its place in
\* rack.cutters
ChannelOf(cutter) ==
    CHOOSE ch \in 1..Len(rack.cutters) : rack.cutters[ch] = cutter

\* a call of cutter.connect() or cutter.disconnect()
Call(op, cutter) == [op |-> op, ch |-> ChannelOf(cutter)]

\* a step of the orchestrator that is no cutter call
Step(op) == [op |-> op, ch |-> 0]

\* "for cutter in cutters: cutter.<op>()"
CallAll(op, cs) == [i \in 1..Len(cs) |-> Call(op, cs[i])]

\* the channels after these cutter calls
RECURSIVE ApplyCalls(_, _)
ApplyCalls(pw, calls) ==
    IF calls = <<>> THEN pw
    ELSE IF Head(calls).op \notin {"connect", "disconnect"}
    THEN ApplyCalls(pw, Tail(calls))
    ELSE ApplyCalls([pw EXCEPT ![Head(calls).ch] = (Head(calls).op = "connect")],
                    Tail(calls))

\* the kernel log when _get_usb_cutters has returned
RECURSIVE Flatten(_)
Flatten(ss) == IF ss = <<>> THEN <<>> ELSE Head(ss) \o Flatten(Tail(ss))

\* TopologyBuilder.__init__ with args.configure among these modes; every
\* channel is on
InitRun(dryruns) ==
    /\ rack \in Racks
    /\ pc = "get_cutters"
    /\ cutters = <<>>
    /\ power = [i \in 1..Len(rack.cutters) |-> TRUE]
    /\ device_files = <<>>
    /\ _timestamp = 0
    /\ _pem_ports = <<>>
    /\ _serial_ports = <<>>
    /\ _network_configs = <<>>
    /\ _devices = <<>>
    /\ idx = 0
    /\ device = EmptyDict
    /\ pem_results = NoBatch
    /\ serial_results = NoBatch
    /\ dead_ports = NoDead
    /\ checked = <<>>
    /\ warnings = 0
    /\ events = <<>>
    /\ configuration = <<>>
    /\ _dryrun \in dryruns
    /\ topology_file = <<>>
    /\ probe = NoProbe

\* a run that saves the topology (args.configure is not "dryrun")
Init == InitRun({FALSE})

(***************************************************************************)
(* What the hardware answers                                               *)
(***************************************************************************)
\* on a faithful rack: the channel of port f is connected
Powered(f) ==
    \E ch \in 1..Len(rack.cutters) :
        power[ch] /\ (rack.pem[ch] = f \/ rack.serial[ch] = f)

\* a worker on what answers this kind of probe returns at once, any other
\* worker blocks; a PEM is attached over a serial connection and gives
\* characters back to the serial checker as well
Answering(kind, f) ==
    IF rack.kind[f] = kind \/ (kind = "serial" /\ rack.kind[f] = "pem")
    THEN Early
    ELSE Hang

\* serial.Serial() raises for this device file
NoOpen == Behaviour(TRUE, 0, "ok", FALSE)

\* a worker that raises at once
Raises == Behaviour(FALSE, 0, "error", TRUE)

\* the worker behaviours an unconstrained rack can show to a batch of an
\* elimination round
FreeBehaviours(kind) ==
    {Early, Hang, Raises} \cup (IF kind = "serial" THEN {NoOpen} ELSE {})

\* the behaviours of the workers of one batch over these device files
WorkerBehaviours(kind, files) ==
    LET usb == Range(UsbFiles(files))
    IN  IF rack.ideal
        THEN {[f \in usb |->
                 IF Powered(f) THEN Answering(kind, f) ELSE Hang]}
        ELSE IF idx = 0
        THEN {[f \in usb |-> Answering(kind, f)]}
             \cup (IF kind = "serial"
                   THEN {[f \in usb |->
                            IF f = g THEN NoOpen ELSE Answering(kind, f)] :
                         g \in usb}
                   ELSE {})
        ELSE [usb -> FreeBehaviours(kind)]

\* the answers of _check_connectivity for the entries of a list
Responses(configs) ==
    IF rack.ideal
    THEN {[i \in 1..Len(configs) |->
             \E j \in 1..Len(rack.net) :
                 rack.net[j] = configs[i] /\ power[rack.netch[j]]]}
    ELSE [1..Len(configs) -> BOOLEAN]

(***************************************************************************)
(* Attribution (EliminationRound)                                          *)
(***************************************************************************)
\* _set_device_cutter_config: every key of the cutter config but "type"
SetDeviceCutterConfig(dev, cutter_config) ==
    [k \in (DOMAIN dev) \cup ((DOMAIN cutter_config) \ {"type"}) |->
        IF k \in (DOMAIN cutter_config) \ {"type"}
        THEN cutter_config[k] ELSE dev[k]]

\* net_config["mac"].lower().startswith(mac_prefix.lower())
MacMatches(mac, mac_prefix) == Lower(mac[1]) = Lower(mac_prefix)

\* the models of self._config["pc_devices"] matching a MAC, in config order
RECURSIVE MatchingModels(_, _)
MatchingModels(pc_devices, mac) ==
    IF pc_devices = <<>> THEN <<>>
    ELSE (IF \E i \in DOMAIN Head(pc_devices).mac_prefixes :
                MacMatches(mac, Head(pc_devices).mac_prefixes[i])
          THEN <<Head(pc_devices).model>> ELSE <<>>)
         \o MatchingModels(Tail(pc_devices), mac)

\* _set_pc_device_ip_and_type
SetPcDeviceIpAndType(dev, net_config) ==
    LET withId == DictSet(dev, "id", net_config.mac)
        models == MatchingModels(PcDevices, net_config.mac)
    IN  IF models = <<>> THEN withId
        ELSE DictSet(withId, "model", Head(models))

\* the dummy id of an Edison is not stored
SetEdisonDeviceIpAndTypeNoId(dev, net_config, uuid) ==
    DictSet(DictSet(DictSet(dev,
        "network_subnet", net_config.subnet),
        "edison_usb_port", net_config.usb_path),
        "model", EdisonModel)

\* _set_edison_device_ip_and_type; uuid stands for uuid.uuid1()
SetEdisonDeviceIpAndType(dev, net_config, uuid) ==
    DictSet(DictSet(DictSet(DictSet(dev,
        "network_subnet", net_config.subnet),
        "edison_usb_port", net_config.usb_path),
        "id", uuid),
        "model", EdisonModel)

\* the loop runs on after a match: the last entry that does not respond
RECURSIVE LastUnresponsive(_, _)
LastUnresponsive(responses, i) ==
    IF i > Len(responses) THEN 0
    ELSE LET later == LastUnresponsive(responses, i + 1)
         IN  IF later # 0 THEN later
             ELSE IF ~responses[i] THEN i ELSE 0

\* the position of the first entry that does not respond, 0 if all do
RECURSIVE FirstUnresponsive(_, _)
FirstUnresponsive(responses, i) ==
    IF i > Len(responses) THEN 0
    ELSE IF ~responses[i] THEN i
    ELSE FirstUnresponsive(responses, i + 1)

\* the attributed endpoint left in the pool
RemoveConfigForgotten(configs, net_config) == configs

\* the pool after "self._network_configs.remove(net_config)"
RemoveConfig(configs, net_config) == ListRemove(configs, net_config)

\* the calls of _check_connectivity made on the first n entries
Checked(configs, responses, n) ==
    [i \in 1..n |-> [config |-> configs[i], reachable |-> responses[i]]]

\* _set_device_network_and_type: the loop over self._network_configs;
\* responses[i] tells whether _check_connectivity returns 0 for entry i
SetDeviceNetworkAndType(dev, configs, responses, uuid) ==
    LET k == FirstUnresponsive(responses, 1)
    IN  IF k = 0
        THEN [device |-> dev, configs |-> configs,
              checked |-> Checked(configs, responses, Len(configs))]
        ELSE [device |->
                IF configs[k].type = "PC"
                THEN SetPcDeviceIpAndType(dev, configs[k])
                ELSE IF configs[k].type = "edison"
                THEN SetEdisonDeviceIpAndType(dev, configs[k], uuid)
                ELSE dev,
              configs |-> RemoveConfig(configs, configs[k]),
              checked |-> Checked(configs, responses, k)]

\* the difference taken the wrong way round
DeadPortsReversed(ports, active_ports) == Range(active_ports) \ Range(ports)

\* dead_ports = list(set(ports).difference(active_ports))
DeadPorts(ports, active_ports) == Range(ports) \ Range(active_ports)

\* the attributed port left in the pool
RemovePortForgotten(ports, port) == ports

\* the pool after "self._serial_ports.remove(dead_ports[0])"
RemovePort(ports, port) == ListRemove(ports, port)

\* "len(dead_ports) > 1" forgotten: some dead port is attributed
BranchNoAmbiguity(dead) ==
    IF Cardinality(dead) = 0 THEN "none" ELSE "one"

\* "len(dead_ports) > 1" written as "len(dead_ports) != 1"
BranchNotOne(dead) ==
    IF Cardinality(dead) # 1 THEN "many" ELSE "one"

\* the branches of _set_device_serial_port / _set_device_pem_port on
\* len(dead_ports): "many", "none" or "one"
Branch(dead) ==
    IF Cardinality(dead) > 1 THEN "many"
    ELSE IF Cardinality(dead) = 0 THEN "none"
    ELSE "one"

\* the device dictionary is not logged
WarningsOfMessageOnly(branch) == IF branch = "many" THEN 1 ELSE 0

\* logger.warning calls of a branch
WarningsOf(branch) == IF branch = "many" THEN 2 ELSE 0

\* _set_device_serial_port, after serial_results.get()
SetDeviceSerialPort(dev, ports, active_serial_ports) ==
    LET dead == DeadPorts(ports, active_serial_ports)
        only == CHOOSE x \in dead : TRUE
    IN  IF Branch(dead) = "one"
        THEN [device |-> DictSet(DictSet(dev,
                            "serial_port", DevPath(only)),
                            "serial_bauds", SerialBauds),
              ports |-> RemovePort(ports, only),
              dead |-> dead, warnings |-> WarningsOf(Branch(dead))]
        ELSE [device |-> dev, ports |-> ports,
              dead |-> dead, warnings |-> WarningsOf(Branch(dead))]

\* _set_device_pem_port, after pem_results.get()
SetDevicePemPort(dev, ports, active_pem_ports) ==
    LET dead == DeadPorts(ports, active_pem_ports)
        only == CHOOSE x \in dead : TRUE
    IN  IF Branch(dead) = "one"
        THEN [device |-> DictSet(DictSet(dev,
                            "pem_port", DevPath(only)),
                            "pem_interface", "serialconnection"),
              ports |-> RemovePort(ports, only),
              dead |-> dead, warnings |-> WarningsOf(Branch(dead))]
        ELSE [device |-> dev, ports |-> ports,
              dead |-> dead, warnings |-> WarningsOf(Branch(dead))]

(***************************************************************************)
(* build_topology: the baseline                                            *)
(***************************************************************************)
\* the timestamp is taken when the cutters are on again
TimestampAfterConnect(step) ==
    CASE step = "power_cycle" -> "connect_all"
      [] step = "connect_all" -> "timestamp"
      [] step = "timestamp" -> "find_pem"

\* the order of _power_cycle_cutters: all off, the timestamp, all on
AfterPowerCycleStep(step) ==
    CASE step = "power_cycle" -> "timestamp"
      [] step = "timestamp" -> "connect_all"
      [] step = "connect_all" -> "find_pem"

\* the possible_cutters of _get_usb_cutters
PossibleCutters == UsbPathList(rack.files, PowerCutters, rack.info)

\* cutters = self._get_cutters(): _get_usb_cutters disconnects every possible
\* relay, then connects them one by one
GetCutters ==
    /\ pc = "get_cutters"
    /\ cutters' = GetCuttersList(rack.clewares, PossibleCutters,
                                 rack.relay_lines, rack.boot_log)
    /\ LET possible_cutters ==
              [i \in 1..Len(PossibleCutters) |-> RelayConfig(PossibleCutters[i])]
           calls == CallAll("disconnect", possible_cutters)
                    \o CallAll("connect", possible_cutters)
       IN  /\ power' = ApplyCalls(power, calls)
           /\ events' = events \o calls
    /\ pc' = "power_cycle"
    /\ UNCHANGED <<_dryrun, topology_file, rack, device_files, _timestamp,
                   _pem_ports, _serial_ports,
                   _network_configs, _devices, idx, device, pem_results,
                   serial_results, dead_ports, checked, warnings,
                   configuration, probe>>

\* _power_cycle_cutters: "for cutter in cutters: cutter.disconnect()", sleep(5)
PowerCycleDisconnect ==
    /\ pc = "power_cycle"
    /\ power' = ApplyCalls(power, CallAll("disconnect", cutters))
    /\ events' = events \o CallAll("disconnect", cutters)
    /\ pc' = AfterPowerCycleStep("power_cycle")
    /\ UNCHANGED <<_dryrun, topology_file, rack, cutters, device_files,
                   _timestamp, _pem_ports,
                   _serial_ports, _network_configs, _devices, idx, device,
                   pem_results, serial_results, dead_ports, checked,
                   warnings, configuration, probe>>

\* _power_cycle_cutters: self._timestamp = self._dmesg_newest_timestamp()
CaptureTimestamp ==
    /\ pc = "timestamp"
    /\ _timestamp' = DmesgNewestTimestamp(
                        Dmesg(rack.boot_log \o Flatten(rack.relay_lines)))
    /\ events' = Append(events, Step("timestamp"))
    /\ pc' = AfterPowerCycleStep("timestamp")
    /\ UNCHANGED <<_dryrun, topology_file, rack, cutters, power, device_files,
                   _pem_ports,
                   _serial_ports, _network_configs, _devices, idx, device,
                   pem_results, serial_results, dead_ports, checked,
                   warnings, configuration, probe>>

\* _power_cycle_cutters: "for cutter in cutters: cutter.connect()"
PowerCycleConnect ==
    /\ pc = "connect_all"
    /\ power' = ApplyCalls(power, CallAll("connect", cutters))
    /\ events' = events \o CallAll("connect", cutters)
    /\ pc' = AfterPowerCycleStep("connect_all")
    /\ UNCHANGED <<_dryrun, topology_file, rack, cutters, device_files,
                   _timestamp, _pem_ports,
                   _serial_ports, _network_configs, _devices, idx, device,
                   pem_results, serial_results, dead_ports, checked,
                   warnings, configuration, probe>>

\* device_files = os.listdir("/dev/"); the baseline PEM batch is launched
FindBaselinePemPorts ==
    /\ pc = "find_pem"
    /\ device_files' = rack.files
    /\ pem_results' = Launch(BaselinePemWait, rack.files)
    /\ events' = Append(events, Step("launch_pem"))
    /\ pc' = "net_configs"
    /\ UNCHANGED <<_dryrun, topology_file, rack, cutters, power, _timestamp,
                   _pem_ports,
                   _serial_ports, _network_configs, _devices, idx, device,
                   serial_results, dead_ports, checked, warnings,
                   configuration, probe>>

\* sleep(120); self._network_configs = self._get_network_configs().  The
\* call does not return unless every connection_opener puts its result.
GetNetworkConfigs ==
    /\ pc = "net_configs"
    /\ LET dmesg_lines == Dmesg(rack.boot_log \o Flatten(rack.relay_lines)
                                \o rack.attach_log)
           n == Len(EdisonLines(dmesg_lines, _timestamp))
       IN  \E order \in Orderings(1..n),
              outcome \in [1..n -> {"put", "raise", "hang"}] :
             LET r == GetEdisonConfigs(dmesg_lines, _timestamp, order, outcome)
             IN  IF r.returns
                 THEN /\ _network_configs' =
                            GetNetworkConfigsList(r.ip_addresses,
                                                  GetPcLikeConfigs(rack.leases))
                      /\ events' = Append(events, Step("net_snapshot"))
                      /\ pc' = "get_pem"
                 ELSE /\ pc' = "blocked"
                      /\ UNCHANGED <<_network_configs, events>>
    /\ UNCHANGED <<_dryrun, topology_file, rack, cutters, power, device_files,
                   _timestamp,
                   _pem_ports, _serial_ports, _devices, idx, device,
                   pem_results, serial_results, dead_ports, checked,
                   warnings, configuration, probe>>

\* self._pem_ports = pem_results.get()
GetBaselinePemPorts ==
    /\ pc = "get_pem"
    /\ pem_results.queue # <<>>
    /\ _pem_ports' = Head(pem_results.queue)
    /\ pem_results' = [pem_results EXCEPT !.queue = Tail(@)]
    /\ events' = Append(events, Step("pem_snapshot"))
    /\ pc' = "find_serial"
    /\ UNCHANGED <<_dryrun, topology_file, rack, cutters, power, device_files,
                   _timestamp,
                   _serial_ports, _network_configs, _devices, idx, device,
                   serial_results, dead_ports, checked, warnings,
                   configuration, probe>>

\* the PEM ports are left among the candidates
PotentialSerialPortsAll(files, pem_ports, order) ==
    ListOfSet(Range(files), order)

\* the PEM ports alone are taken as the candidates
PotentialSerialPortsIntersection(files, pem_ports, order) ==
    ListOfSet(Range(files) \cap Range(pem_ports), order)

\* potential_serial_ports = list(set(device_files).difference(self._pem_ports))
PotentialSerialPorts(files, pem_ports, order) ==
    ListOfSet(Range(files) \ Range(pem_ports), order)

\* the baseline serial batch is launched on the potential serial ports
FindBaselineSerialPorts ==
    /\ pc = "find_serial"
    /\ serial_results' =
          Launch(BaselineSerialWait,
                 PotentialSerialPorts(device_files, _pem_ports, rack.setorder))
    /\ events' = Append(events, Step("launch_serial"))
    /\ pc' = "get_serial"
    /\ UNCHANGED <<_dryrun, topology_file, rack, cutters, power, device_files,
                   _timestamp,
                   _pem_ports, _serial_ports, _network_configs, _devices,
                   idx, device, pem_results, dead_ports, checked, warnings,
                   configuration, probe>>

\* self._serial_ports = serial_results.get(); the loop over cutters begins
GetBaselineSerialPorts ==
    /\ pc = "get_serial"
    /\ serial_results.queue # <<>>
    /\ _serial_ports' = Head(serial_results.queue)
    /\ serial_results' = [serial_results EXCEPT !.queue = Tail(@)]
    /\ events' = Append(events, Step("serial_snapshot"))
    /\ idx' = 1
    /\ pc' = IF Len(cutters) >= 1 THEN "disconnect" ELSE "create_configuration"
    /\ UNCHANGED <<_dryrun, topology_file, rack, cutters, power, device_files,
                   _timestamp,
                   _pem_ports, _network_configs, _devices, device,
                   pem_results, dead_ports, checked, warnings, configuration,
                   probe>>

(***************************************************************************)
(* The probe-batch processes                                               *)
(***************************************************************************)
\* the process pem_finder runs _get_active_PEM_device_files to its end
PemFinder ==
    /\ pem_results.proc = "running"
    /\ \E beh \in WorkerBehaviours("pem", pem_results.files) :
          LET r == GetActivePEMDeviceFiles(pem_results.wait,
                                           pem_results.files, beh)
          IN  pem_results' = [pem_results EXCEPT
                                !.proc = "exited", !.queue = <<r.ports>>]
    /\ UNCHANGED <<_dryrun, topology_file, rack, pc, cutters, power,
                   device_files, _timestamp,
                   _pem_ports, _serial_ports, _network_configs, _devices,
                   idx, device, serial_results, dead_ports, checked,
                   warnings, events, configuration, probe>>

\* the process serial_finder runs _get_active_serial_device_files to its
\* end: queue.put, or an exception of serial.Serial() that ends the process
SerialFinder ==
    /\ serial_results.proc = "running"
    /\ \E beh \in WorkerBehaviours("serial", serial_results.files) :
          LET r == GetActiveSerialDeviceFiles(serial_results.wait,
                                              serial_results.files, beh)
          IN  serial_results' =
                IF r.put
                THEN [serial_results EXCEPT
                        !.proc = "exited", !.queue = <<r.ports>>]
                ELSE [serial_results EXCEPT !.proc = "died"]
    /\ UNCHANGED <<_dryrun, topology_file, rack, pc, cutters, power,
                   device_files, _timestamp,
                   _pem_ports, _serial_ports, _network_configs, _devices,
                   idx, device, pem_results, dead_ports, checked, warnings,
                   events, configuration, probe>>

(***************************************************************************)
(* _get_device_configuration: one elimination round                        *)
(***************************************************************************)
\* the endpoint attribution is made after the serial result was read
NetworkAfterSerial(step) ==
    CASE step = "disconnect" -> "launch_pem"
      [] step = "launch_pem" -> "launch_serial"
      [] step = "launch_serial" -> "cutter_config"
      [] step = "cutter_config" -> "serial"
      [] step = "serial" -> "network"
      [] step = "network" -> "pem"
      [] step = "pem" -> "append"

\* the PEM result is read, and the PEM pool changed, before the serial result
PemBeforeSerial(step) ==
    CASE step = "disconnect" -> "launch_pem"
      [] step = "launch_pem" -> "launch_serial"
      [] step = "launch_serial" -> "cutter_config"
      [] step = "cutter_config" -> "network"
      [] step = "network" -> "pem"
      [] step = "pem" -> "serial"
      [] step = "serial" -> "append"

\* the record is returned when the serial result was read; the PEM result
\* of the round is left unread
SkipsPemResult(step) ==
    CASE step = "disconnect" -> "launch_pem"
      [] step = "launch_pem" -> "launch_serial"
      [] step = "launch_serial" -> "cutter_config"
      [] step = "cutter_config" -> "network"
      [] step = "network" -> "serial"
      [] step = "serial" -> "append"
      [] step = "pem" -> "append"

\* the order of the calls of _get_device_configuration
AfterRoundStep(step) ==
    CASE step = "disconnect" -> "launch_pem"
      [] step = "launch_pem" -> "launch_serial"
      [] step = "launch_serial" -> "cutter_config"
      [] step = "cutter_config" -> "network"
      [] step = "network" -> "serial"
      [] step = "serial" -> "pem"
      [] step = "pem" -> "append"

\* the channel is switched off and on again
RoundCutterCallsCycling(cutter) ==
    <<Call("disconnect", cutter), Call("connect", cutter)>>

\* the cutter calls of a round: cutter.disconnect()
RoundCutterCalls(cutter) == <<Call("disconnect", cutter)>>

\* cutter.disconnect()
Disconnect ==
    /\ pc = "disconnect"
    /\ power' = ApplyCalls(power, RoundCutterCalls(cutters[idx]))
    /\ events' = events \o RoundCutterCalls(cutters[idx])
    /\ dead_ports' = NoDead
    /\ checked' = <<>>
    /\ warnings' = 0
    /\ pc' = AfterRoundStep("disconnect")
    /\ UNCHANGED <<_dryrun, topology_file, rack, cutters, device_files,
                   _timestamp, _pem_ports,
                   _serial_ports, _network_configs, _devices, idx, device,
                   pem_results, serial_results, configuration, probe>>

\* pem_results = self._find_active_pem_ports_from(30, self._pem_ports)
FindActivePemPorts ==
    /\ pc = "launch_pem"
    /\ pem_results' = Launch(RoundWait, _pem_ports)
    /\ events' = Append(events, Step("launch_pem"))
    /\ pc' = AfterRoundStep("launch_pem")
    /\ UNCHANGED <<_dryrun, topology_file, rack, cutters, power, device_files,
                   _timestamp,
                   _pem_ports, _serial_ports, _network_configs, _devices,
                   idx, device, serial_results, dead_ports, checked,
                   warnings, configuration, probe>>

\* serial_results = self._find_active_serial_ports_from(30, self._serial_ports)
FindActiveSerialPorts ==
    /\ pc = "launch_serial"
    /\ serial_results' = Launch(RoundWait, _serial_ports)
    /\ events' = Append(events, Step("launch_serial"))
    /\ pc' = AfterRoundStep("launch_serial")
    /\ UNCHANGED <<_dryrun, topology_file, rack, cutters, power, device_files,
                   _timestamp,
                   _pem_ports, _serial_ports, _network_configs, _devices,
                   idx, device, pem_results, dead_ports, checked, warnings,
                   configuration, probe>>

\* device = {}; self._set_device_cutter_config(device, cutter)
ConfigureCutter ==
    /\ pc = "cutter_config"
    /\ device' = SetDeviceCutterConfig(EmptyDict, cutters[idx])
    /\ pc' = AfterRoundStep("cutter_config")
    /\ UNCHANGED <<_dryrun, topology_file, rack, cutters, power, device_files,
                   _timestamp,
                   _pem_ports, _serial_ports, _network_configs, _devices,
                   idx, pem_results, serial_results, dead_ports, checked,
                   warnings, events, configuration, probe>>

\* self._set_device_network_and_type(device)
ConfigureNetwork ==
    /\ pc = "network"
    /\ \E responses \in Responses(_network_configs) :
          LET r == SetDeviceNetworkAndType(device, _network_configs,
                                           responses, <<"uuid", idx>>)
          IN  /\ device' = r.device
              /\ _network_configs' = r.configs
              /\ checked' = r.checked
    /\ events' = Append(events, Step("network"))
    /\ pc' = AfterRoundStep("network")
    /\ UNCHANGED <<_dryrun, topology_file, rack, cutters, power, device_files,
                   _timestamp,
                   _pem_ports, _serial_ports, _devices, idx, pem_results,
                   serial_results, dead_ports, warnings, configuration,
                   probe>>

\* self._set_device_serial_port(device, serial_results)
ConfigureSerialPort ==
    /\ pc = "serial"
    /\ serial_results.queue # <<>>
    /\ LET r == SetDeviceSerialPort(device, _serial_ports,
                                    Head(serial_results.queue))
       IN  /\ device' = r.device
           /\ _serial_ports' = r.ports
           /\ dead_ports' = [dead_ports EXCEPT !.serial = r.dead]
           /\ warnings' = warnings + r.warnings
    /\ serial_results' = [serial_results EXCEPT !.queue = Tail(@)]
    /\ events' = Append(events, Step("get_serial"))
    /\ pc' = AfterRoundStep("serial")
    /\ UNCHANGED <<_dryrun, topology_file, rack, cutters, power, device_files,
                   _timestamp,
                   _pem_ports, _network_configs, _devices, idx, pem_results,
                   checked, configuration, probe>>

\* self._set_device_pem_port(device, pem_results)
ConfigurePemPort ==
    /\ pc = "pem"
    /\ pem_results.queue # <<>>
    /\ LET r == SetDevicePemPort(device, _pem_ports, Head(pem_results.queue))
       IN  /\ device' = r.device
           /\ _pem_ports' = r.ports
           /\ dead_ports' = [dead_ports EXCEPT !.pem = r.dead]
           /\ warnings' = warnings + r.warnings
    /\ pem_results' = [pem_results EXCEPT !.queue = Tail(@)]
    /\ events' = Append(events, Step("get_pem"))
    /\ pc' = AfterRoundStep("pem")
    /\ UNCHANGED <<_dryrun, topology_file, rack, cutters, power, device_files,
                   _timestamp,
                   _serial_ports, _network_configs, _devices, idx,
                   serial_results, checked, configuration, probe>>

\* self._devices.append(...); the loop goes to the next cutter
AppendDevice ==
    /\ pc = "append"
    /\ _devices' = Append(_devices, device)
    /\ idx' = idx + 1
    /\ events' = Append(events, Step("append"))
    /\ pc' = IF idx < Len(cutters) THEN "disconnect"
             ELSE "create_configuration"
    /\ UNCHANGED <<_dryrun, topology_file, rack, cutters, power, device_files,
                   _timestamp,
                   _pem_ports, _serial_ports, _network_configs, device,
                   pem_results, serial_results, dead_ports, checked,
                   warnings, configuration, probe>>

(***************************************************************************)
(* build_topology: the result                                              *)
(***************************************************************************)
\* configuration = self._create_configuration(); an exception of
\* config.add_section ends the run
CreateConfigurationStep ==
    /\ pc = "create_configuration"
    /\ LET r == CreateConfiguration(_devices)
       IN  IF r.raised
           THEN pc' = "raised" /\ UNCHANGED configuration
           ELSE pc' = "write_topology" /\ configuration' = r.sections
    /\ UNCHANGED <<_dryrun, topology_file, rack, cutters, power, device_files,
                   _timestamp,
                   _pem_ports, _serial_ports, _network_configs, _devices,
                   idx, device, pem_results, serial_results, dead_ports,
                   checked, warnings, events, probe>>

\* the mode is ignored: the file is written in a dry run too
WritesTopologyAlways(dryrun) == TRUE

\* "if not self._dryrun:" before the topology file is opened
WritesTopology(dryrun) == ~dryrun

\* with open("/etc/aft/devices/topology.cfg", "w") as f:
\*     configuration.write(f)
WriteTopology ==
    /\ pc = "write_topology"
    /\ topology_file' = IF WritesTopology(_dryrun)
                        THEN Append(topology_file, configuration)
                        ELSE topology_file
    /\ pc' = "done"
    /\ UNCHANGED <<_dryrun, rack, cutters, power, device_files, _timestamp,
                   _pem_ports, _serial_ports, _network_configs, _devices,
                   idx, device, pem_results, serial_results, dead_ports,
                   checked, warnings, events, configuration, probe>>

\* the positions of build_topology at which the process still runs
Running == pc \notin {"done", "raised", "interrupted"}

\* the KeyboardInterrupt is caught and dropped inside build_topology: the run
\* goes on
InterruptSwallowed ==
    /\ Running
    /\ events' = Append(events, Step("interrupt"))
    /\ UNCHANGED <<_dryrun, topology_file, rack, pc, cutters, power,
                   device_files, _timestamp, _pem_ports, _serial_ports,
                   _network_configs, _devices, idx, device, pem_results,
                   serial_results, dead_ports, checked, warnings,
                   configuration, probe>>

\* a KeyboardInterrupt is raised in the orchestrator: nothing in
\* topology_builder.py catches it, main() prints, logs and calls sys.exit(0).
\* The process is gone and with it what it held in memory; the cutters stay
\* as they are.
Interrupt ==
    /\ Running
    /\ pc' = "interrupted"
    /\ events' = Append(events, Step("interrupt"))
    /\ cutters' = <<>>
    /\ device_files' = <<>>
    /\ _timestamp' = 0
    /\ _pem_ports' = <<>>
    /\ _serial_ports' = <<>>
    /\ _network_configs' = <<>>
    /\ _devices' = <<>>
    /\ idx' = 0
    /\ device' = EmptyDict
    /\ pem_results' = NoBatch
    /\ serial_results' = NoBatch
    /\ dead_ports' = NoDead
    /\ checked' = <<>>
    /\ warnings' = 0
    /\ configuration' = <<>>
    /\ UNCHANGED <<_dryrun, topology_file, rack, power, probe>>

Next ==
    \/ GetCutters
    \/ PowerCycleDisconnect
    \/ CaptureTimestamp
    \/ PowerCycleConnect
    \/ FindBaselinePemPorts
    \/ GetNetworkConfigs
    \/ GetBaselinePemPorts
    \/ FindBaselineSerialPorts
    \/ GetBaselineSerialPorts
    \/ PemFinder
    \/ SerialFinder
    \/ Disconnect
    \/ FindActivePemPorts
    \/ FindActiveSerialPorts
    \/ ConfigureCutter
    \/ ConfigureNetwork
    \/ ConfigureSerialPort
    \/ ConfigurePemPort
    \/ AppendDevice
    \/ CreateConfigurationStep
    \/ WriteTopology
    \/ Interrupt

Spec == Init /\ [][Next]_vars

(***************************************************************************)
(* SpecDryRun: build_topology in either mode                               *)
(***************************************************************************)
InitDryRun == InitRun(BOOLEAN)

SpecDryRun == InitDryRun /\ [][Next]_vars

(***************************************************************************)
(* SpecProbe: one probe batch on bounded inputs                            *)
(***************************************************************************)
\* n ttyUSB candidates with another device file among them
ProbeFiles(n) ==
    IF n = 0 THEN <<OtherFile>>
    ELSE <<TtyUSB(0), OtherFile>> \o [i \in 1..(n - 1) |-> TtyUSB(i)]

\* what a worker of a batch of n candidates with budget wait can do: return
\* or raise at any second up to past the last join, or block
ProbeBehaviours(kind, wait_duration, n) ==
    {Behaviour(FALSE, d, x, TRUE) :
        d \in 0..(wait_duration + n + 1), x \in {"ok", "error"}}
    \cup {Hang}
    \cup (IF kind = "serial" THEN {NoOpen} ELSE {})

RunIdle ==
    /\ rack = CHOOSE r \in FreeRacks :
                  r.net = <<>> /\ r.kind = FreeKind(0, 0) /\ r.relay_lines = <<>>
    /\ pc = "off"
    /\ cutters = <<>>
    /\ power = <<>>
    /\ device_files = <<>>
    /\ _timestamp = 0
    /\ _pem_ports = <<>>
    /\ _serial_ports = <<>>
    /\ _network_configs = <<>>
    /\ _devices = <<>>
    /\ idx = 0
    /\ device = EmptyDict
    /\ pem_results = NoBatch
    /\ serial_results = NoBatch
    /\ dead_ports = NoDead
    /\ checked = <<>>
    /\ warnings = 0
    /\ events = <<>>
    /\ configuration = <<>>
    /\ _dryrun = FALSE
    /\ topology_file = <<>>

InitProbe ==
    /\ RunIdle
    /\ \E kind \in {"pem", "serial"}, w \in 1..MaxWait, n \in 0..MaxProbeFiles :
          \E b \in [Range(UsbFiles(ProbeFiles(n))) ->
                       ProbeBehaviours(kind, w, n)] :
             probe = [pc |-> "ready", kind |-> kind, wait |-> w,
                      files |-> ProbeFiles(n), beh |-> b]

\* the batch process runs from its start to queue.put or to its death
RunProbe ==
    /\ probe.pc = "ready"
    /\ probe' = [pc |-> "done", kind |-> probe.kind, wait |-> probe.wait,
                 files |-> probe.files, beh |-> probe.beh,
                 out |-> GetActiveDeviceFiles(probe.kind, probe.wait,
                                              probe.files, probe.beh)]
    /\ UNCHANGED runVars

NextProbe == RunProbe

SpecProbe == InitProbe /\ [][NextProbe]_vars

(***************************************************************************)
(* SpecEdison: _get_edison_configs on bounded kernel logs                  *)
(***************************************************************************)
\* the texts of the lines of a log
LineTexts == {EdisonText, ProductText, "other"}

\* the logs of n lines: the seconds never go back, every line names a usb
\* port of its own
EdisonLogs(n) ==
    {[i \in 1..n |-> LogLine(secs[i], i, texts[i], <<"2-1.", i>>)] :
        secs \in {q \in [1..n -> 0..MaxTime] :
                    \A i \in 1..n : i > 1 => q[i - 1] <= q[i]},
        texts \in [1..n -> LineTexts]}

\* every opener puts its result, or one of them raises or blocks
OpenerOutcomes(n) ==
    {[k \in 1..n |-> "put"]}
    \cup {[k \in 1..n |-> IF k = bad THEN how ELSE "put"] :
            bad \in 1..n, how \in {"raise", "hang"}}

InitEdison ==
    /\ RunIdle
    /\ \E n \in 0..MaxLines, timestamp \in 0..MaxTime :
          \E lines \in EdisonLogs(n) :
             LET m == Len(EdisonLines(Dmesg(lines), timestamp))
             IN  \E order \in Orderings(1..m), outcome \in OpenerOutcomes(m) :
                    probe = [pc |-> "ready", kind |-> "edison",
                             lines |-> lines, timestamp |-> timestamp,
                             order |-> order, outcome |-> outcome]

\* _get_network_configs with these Edisons and no lease
RunEdison ==
    /\ probe.pc = "ready"
    /\ LET r == GetEdisonConfigs(Dmesg(probe.lines), probe.timestamp,
                                 probe.order, probe.outcome)
       IN  probe' = [pc |-> "done", kind |-> probe.kind,
                     lines |-> probe.lines, timestamp |-> probe.timestamp,
                     order |-> probe.order, outcome |-> probe.outcome,
                     out |-> r,
                     configs |-> IF r.returns
                                 THEN GetNetworkConfigsList(r.ip_addresses,
                                                            GetPcLikeConfigs(<<>>))
                                 ELSE <<>>]
    /\ UNCHANGED runVars

NextEdison == RunEdison

SpecEdison == InitEdison /\ [][NextEdison]_vars

(***************************************************************************)
(* SpecAssemble: _create_configuration on bounded result lists             *)
(***************************************************************************)
\* the models of the configuration: self._config["edison"]["model"] and the
\* models of self._config["pc_devices"]
Models == {"edison", "Edison", "MinnowboardMAX"}

\* the i-th record of a list: with this model, or with none
Record(i, model) ==
    IF model = "" THEN [id |-> <<"id", i>>, cutter |-> <<"563">>]
    ELSE [id |-> <<"id", i>>, cutter |-> <<"563">>, model |-> model]

InitAssemble ==
    /\ RunIdle
    /\ \E n \in 0..MaxRecords :
          \E models \in [1..n -> Models \cup {""}] :
             probe = [pc |-> "ready", kind |-> "assemble",
                      devices |-> [i \in 1..n |-> Record(i, models[i])]]

RunAssemble ==
    /\ probe.pc = "ready"
    /\ probe' = [pc |-> "done", kind |-> probe.kind,
                 devices |-> probe.devices,
                 out |-> CreateConfiguration(probe.devices)]
    /\ UNCHANGED runVars

NextAssemble == RunAssemble

SpecAssemble == InitAssemble /\ [][NextAssemble]_vars

(***************************************************************************)
(* SpecFlash: try_flash_model of main.py.  The k-th device handed out by   *)
(* device_manager.reserve() is device k; calls is the list of the calls    *)
(* made on the device manager, the devices and the blacklist.              *)
(***************************************************************************)
\* largest --device_retries and --flash_retries tried
MaxDeviceRetries == 3

MaxFlashRetries == 3

DeviceCall(op, dev) == [op |-> op, dev |-> dev, outcome |-> ""]

\* device.write_image(args.file_name) and how it ended
WriteImage(dev, outcome) ==
    [op |-> "write_image", dev |-> dev, outcome |-> outcome]

\* the test is made after the attempt: one attempt more
MoreFlashAttemptsInclusive(flash_attempt, flash_retries) ==
    flash_attempt <= flash_retries

\* "while flash_attempt < flash_retries"
MoreFlashAttempts(flash_attempt, flash_retries) ==
    flash_attempt < flash_retries

\* "while device_attempt < device_retries"
MoreDevices(device_attempt, device_retries) ==
    device_attempt < device_retries

\* "if (flash_retries - flash_attempt) == 0"
LastFlashAttempt(flash_attempt, flash_retries) ==
    (flash_retries - flash_attempt) = 0

\* where the function goes on after the body of the inner loop
AfterFlashAttempt(flash_attempt, flash_retries) ==
    IF MoreFlashAttempts(flash_attempt, flash_retries) THEN "flash"
    ELSE "reserve"

\* args of a call without --device: the retries are integers of the command
\* line (argparse type=int)
InitFlash ==
    /\ RunIdle
    /\ \E dr \in 0..MaxDeviceRetries, fr \in 0..MaxFlashRetries,
          nf \in BOOLEAN :
          probe = [pc |-> "reserve", kind |-> "flash",
                   device_retries |-> dr, flash_retries |-> fr,
                   noflash |-> nf, device_attempt |-> 0,
                   flash_attempt |-> 0, calls |-> <<>>, returns |-> 0]

\* the outer loop takes a device: device_manager.reserve(); with --noflash
\* the device is returned
Reserve ==
    /\ probe.kind = "flash" /\ probe.pc = "reserve"
    /\ MoreDevices(probe.device_attempt, probe.device_retries)
    /\ LET dev == probe.device_attempt + 1
       IN  probe' = [probe EXCEPT
                       !.device_attempt = dev,
                       !.calls = Append(@, DeviceCall("reserve", dev)),
                       !.flash_attempt = 0,
                       !.returns = IF probe.noflash THEN dev ELSE @,
                       !.pc = IF probe.noflash THEN "returned"
                              ELSE AfterFlashAttempt(0, probe.flash_retries)]
    /\ UNCHANGED runVars

\* the outer loop has ended: the function ends without a return statement
FallThrough ==
    /\ probe.kind = "flash" /\ probe.pc = "reserve"
    /\ ~MoreDevices(probe.device_attempt, probe.device_retries)
    /\ probe' = [probe EXCEPT !.pc = "returned_none"]
    /\ UNCHANGED runVars

\* write_image returns: "return device, tester"
FlashSucceeds ==
    /\ probe.kind = "flash" /\ probe.pc = "flash"
    /\ probe' = [probe EXCEPT
                    !.flash_attempt = @ + 1,
                    !.calls = Append(@, WriteImage(probe.device_attempt, "ok")),
                    !.returns = probe.device_attempt,
                    !.pc = "returned"]
    /\ UNCHANGED runVars

\* write_image is interrupted: "except KeyboardInterrupt: raise"
FlashInterrupted ==
    /\ probe.kind = "flash" /\ probe.pc = "flash"
    /\ probe' = [probe EXCEPT
                    !.flash_attempt = @ + 1,
                    !.calls = Append(@, WriteImage(probe.device_attempt,
                                                   "interrupt")),
                    !.pc = "interrupted"]
    /\ UNCHANGED runVars

\* write_image raises: the bare except; after the last attempt the device is
\* blacklisted and released, and the exception raised again on the last
\* device
FlashFails ==
    /\ probe.kind = "flash" /\ probe.pc = "flash"
    /\ LET dev == probe.device_attempt
           flash_attempt == probe.flash_attempt + 1
           failed == Append(probe.calls, WriteImage(dev, "error"))
       IN  IF LastFlashAttempt(flash_attempt, probe.flash_retries)
           THEN probe' = [probe EXCEPT
                            !.flash_attempt = flash_attempt,
                            !.calls = failed
                                      \o <<DeviceCall("blacklist_device", dev),
                                           DeviceCall("release", dev)>>,
                            !.pc = IF MoreDevices(probe.device_attempt,
                                                  probe.device_retries)
                                   THEN AfterFlashAttempt(flash_attempt,
                                                          probe.flash_retries)
                                   ELSE "raised"]
           ELSE probe' = [probe EXCEPT
                            !.flash_attempt = flash_attempt,
                            !.calls = failed,
                            !.pc = AfterFlashAttempt(flash_attempt,
                                                     probe.flash_retries)]
    /\ UNCHANGED runVars

NextFlash ==
    \/ Reserve
    \/ FallThrough
    \/ FlashSucceeds
    \/ FlashInterrupted
    \/ FlashFails

SpecFlash == InitFlash /\ [][NextFlash]_vars

(***************************************************************************)
(* SpecRelease: main() from the reservation of a device to its exit.  With *)
(* --device the device is taken by try_flash_specific, otherwise by        *)
(* try_flash_model as above; calls lists the calls made on the device      *)
(* manager and on the device.  The handlers of main (except, finally) call *)
(* neither.                                                                *)
(***************************************************************************)
InitRelease ==
    /\ RunIdle
    /\ \E dr \in 0..MaxDeviceRetries, fr \in 0..MaxFlashRetries,
          nf \in BOOLEAN, nt \in BOOLEAN, np \in BOOLEAN, sp \in BOOLEAN :
          probe = [pc |-> IF sp THEN "reserve_specific" ELSE "reserve",
                   kind |-> "flash",
                   device_retries |-> dr, flash_retries |-> fr,
                   noflash |-> nf, device_attempt |-> 0,
                   flash_attempt |-> 0, calls |-> <<>>, returns |-> 0,
                   notest |-> nt, nopoweroff |-> np, specific |-> sp]

\* try_flash_specific: reserve_specific, then write_image with no handler
\* around it
FlashSpecific ==
    /\ probe.kind = "flash" /\ probe.pc = "reserve_specific"
    /\ \E outcome \in IF probe.noflash THEN {"none"}
                       ELSE {"ok", "error", "interrupt"} :
          probe' = [probe EXCEPT
                      !.device_attempt = 1,
                      !.calls = <<DeviceCall("reserve", 1)>>
                                \o (IF probe.noflash THEN <<>>
                                    ELSE <<WriteImage(1, outcome)>>),
                      !.returns = IF outcome \in {"none", "ok"} THEN 1 ELSE @,
                      !.pc = CASE outcome = "error" -> "raised"
                               [] outcome = "interrupt" -> "interrupted"
                               [] OTHER -> "returned"]
    /\ UNCHANGED runVars

\* the steps of main on the device it was handed: tester.execute(),
\* device.detach(), device_manager.release(device), return 0; a step that
\* raises or is interrupted leaves the body at once
AfterFlash ==
    /\ probe.kind = "flash" /\ probe.pc = "returned"
    /\ LET dev == probe.returns
           execute(outcome) ==
               [op |-> "execute", dev |-> dev, outcome |-> outcome]
           detach(outcome) ==
               [op |-> "detach", dev |-> dev, outcome |-> outcome]
           tested == IF probe.notest THEN <<>> ELSE <<execute("ok")>>
           detached == IF probe.nopoweroff THEN <<>> ELSE <<detach("ok")>>
       IN  \/ probe' = [probe EXCEPT
                          !.calls = @ \o tested \o detached
                                      \o <<DeviceCall("release", dev)>>,
                          !.pc = "exit"]
           \/ /\ ~probe.notest
              /\ \E outcome \in {"error", "interrupt"} :
                    probe' = [probe EXCEPT
                                !.calls = Append(@, execute(outcome)),
                                !.pc = IF outcome = "error" THEN "raised"
                                       ELSE "interrupted"]
           \/ /\ ~probe.nopoweroff
              /\ \E outcome \in {"error", "interrupt"} :
                    probe' = [probe EXCEPT
                                !.calls = @ \o tested \o <<detach(outcome)>>,
                                !.pc = IF outcome = "error" THEN "raised"
                                       ELSE "interrupted"]
    /\ UNCHANGED runVars

NextRelease ==
    \/ Reserve
    \/ FallThrough
    \/ FlashSucceeds
    \/ FlashInterrupted
    \/ FlashFails
    \/ FlashSpecific
    \/ AfterFlash

SpecRelease == InitRelease /\ [][NextRelease]_vars

(***************************************************************************)
(* SpecMain: the try / except / finally of main().  threads is what        *)
(* thread_handler.get_threads() returns: the threads handed to             *)
(* thread_handler.add_thread so far.                                       *)
(***************************************************************************)
\* largest number of recorder threads registered in a run
MaxThreads == 3

\* thread.join(5)
RecorderJoinTimeout == 5

\* the ways the body of the try block is left
Exits ==
    {[by |-> "return", code |-> 0], [by |-> "early_return", code |-> 0],
     [by |-> "early_return", code |-> 1],
     [by |-> "KeyboardInterrupt", code |-> 0], [by |-> "exception", code |-> 1]}

\* sys.exit(0) in the handler ends the process at once
AfterExitNoFinallyOnSysExit(exit) ==
    IF exit.by = "KeyboardInterrupt" THEN "finished" ELSE "finally"

\* a return, the sys.exit(0) of the KeyboardInterrupt handler and the raise
\* of the bare handler all pass through the finally block
AfterExit(exit) == "finally"

InitMain ==
    /\ RunIdle
    /\ probe = [pc |-> "body", kind |-> "main", threads |-> <<>>,
                flag |-> "", joins |-> <<>>,
                exit |-> [by |-> "", code |-> 0]]

\* thread_handler.add_thread(recorder) of device.record_serial()
AddThread ==
    /\ probe.kind = "main" /\ probe.pc = "body"
    /\ Len(probe.threads) < MaxThreads
    /\ probe' = [probe EXCEPT !.threads = Append(@, Len(@) + 1)]
    /\ UNCHANGED runVars

\* the body is left by a return statement or by an exception; the handlers
\* of KeyboardInterrupt and of every other exception run
LeaveBody ==
    /\ probe.kind = "main" /\ probe.pc = "body"
    /\ \E exit \in Exits :
          probe' = [probe EXCEPT !.exit = exit, !.pc = AfterExit(exit)]
    /\ UNCHANGED runVars

\* finally: thread_handler.set_flag(thread_handler.RECORDERS_STOP)
SetFlag ==
    /\ probe.kind = "main" /\ probe.pc = "finally"
    /\ probe' = [probe EXCEPT !.flag = "RECORDERS_STOP", !.pc = "join"]
    /\ UNCHANGED runVars

\* finally: thread.join(5) on the next thread; alive tells whether the
\* thread still runs when the join returns
JoinThread ==
    /\ probe.kind = "main" /\ probe.pc = "join"
    /\ Len(probe.joins) < Len(probe.threads)
    /\ \E alive \in BOOLEAN :
          probe' = [probe EXCEPT
                      !.joins = Append(@,
                          [thread |-> probe.threads[Len(@) + 1],
                           timeout |-> RecorderJoinTimeout,
                           alive |-> alive])]
    /\ UNCHANGED runVars

\* the loop of the finally block has ended: main is left
Finish ==
    /\ probe.kind = "main" /\ probe.pc = "join"
    /\ Len(probe.joins) = Len(probe.threads)
    /\ probe' = [probe EXCEPT !.pc = "finished"]
    /\ UNCHANGED runVars

NextMain ==
    \/ AddThread
    \/ LeaveBody
    \/ SetFlag
    \/ JoinThread
    \/ Finish

SpecMain == InitMain /\ [][NextMain]_vars

(***************************************************************************)
(* SpecWait: wait_for_responsive_ip_for_pc_device of devices/common.py.    *)
(* The leases of the device are the addresses 1..leases; log is the list   *)
(* of the polls and sleeps made.                                           *)
(***************************************************************************)
\* largest timeout, polling interval and number of leased addresses tried
MaxTimeout == 4

MaxInterval == 2

MaxLeases == 2

\* the number of polls rounded up
PollsCeiling(timeout, polling_interval) ==
    (timeout + polling_interval - 1) \div polling_interval

\* "range(timeout // polling_interval)"
Polls(timeout, polling_interval) == timeout \div polling_interval

\* get_ip_for_pc_device: the first leased address that answers, 0 for None;
\* responsive[i] is ssh.test_ssh_connectivity on the i-th address
GetIpForPcDevice(responsive) ==
    IF \A i \in DOMAIN responsive : ~responsive[i] THEN 0
    ELSE CHOOSE i \in DOMAIN responsive :
            /\ responsive[i]
            /\ \A j \in 1..(i - 1) : ~responsive[j]

InitWait ==
    /\ RunIdle
    /\ \E t \in 0..MaxTimeout, p \in 0..MaxInterval, n \in 0..MaxLeases :
          probe = [pc |-> "start", kind |-> "wait", timeout |-> t,
                   polling_interval |-> p, leases |-> n, polls |-> 0,
                   i |-> 0, log |-> <<>>, returns |-> 0]

\* the range of the loop is computed: the division raises
\* ZeroDivisionError on a polling interval of 0
StartWait ==
    /\ probe.kind = "wait" /\ probe.pc = "start"
    /\ probe' = IF probe.polling_interval = 0
                THEN [probe EXCEPT !.pc = "raised"]
                ELSE [probe EXCEPT
                        !.polls = Polls(probe.timeout, probe.polling_interval),
                        !.pc = "loop"]
    /\ UNCHANGED runVars

\* one pass of the loop: the poll, then the return of the address or the
\* sleep
Poll ==
    /\ probe.kind = "wait" /\ probe.pc = "loop"
    /\ probe.i < probe.polls
    /\ \E responsive \in [1..probe.leases -> BOOLEAN] :
          LET responsive_ip == GetIpForPcDevice(responsive)
              polled == Append(probe.log,
                               [op |-> "poll", value |-> responsive_ip])
          IN  probe' =
                IF responsive_ip = 0
                THEN [probe EXCEPT
                        !.i = @ + 1,
                        !.log = Append(polled,
                                       [op |-> "sleep",
                                        value |-> probe.polling_interval])]
                ELSE [probe EXCEPT
                        !.i = @ + 1, !.log = polled,
                        !.returns = responsive_ip, !.pc = "returned"]
    /\ UNCHANGED runVars

\* the loop has ended: the function ends without a return statement
NoResponsiveIp ==
    /\ probe.kind = "wait" /\ probe.pc = "loop"
    /\ probe.i = probe.polls
    /\ probe' = [probe EXCEPT !.pc = "returned"]
    /\ UNCHANGED runVars

NextWait ==
    \/ StartWait
    \/ Poll
    \/ NoResponsiveIp

SpecWait == InitWait /\ [][NextWait]_vars

\* the function, once called, keeps running
SpecWaitLive == SpecWait /\ WF_vars(NextWait)

(***************************************************************************)
(* The port attribution of successive rounds over one pool: the pool is    *)
(* any list of ttyUSB files, each round's batch result any list of ports   *)
(* of the pool                                                             *)
(***************************************************************************)
\* rounds over one pool
MaxRounds == 2

InitPools ==
    /\ RunIdle
    /\ \E kind \in {"serial", "pem"} :
       \E S \in SUBSET Range(UsbFiles(FreeFiles)) :
       \E results \in [1..MaxRounds ->
                           {ListOfSet(A, FreeFiles) : A \in SUBSET S}] :
           probe = [pc |-> "round", kind |-> "pools", pool |-> kind,
                    listed |-> ListOfSet(S, FreeFiles),
                    ports |-> ListOfSet(S, FreeFiles),
                    results |-> results, round |-> 0,
                    dead |-> <<>>, records |-> <<>>]

\* _set_device_serial_port or _set_device_pem_port of the next round, on
\* the pool the earlier rounds left
AttributePort ==
    /\ probe.pc = "round"
    /\ probe.round < Len(probe.results)
    /\ LET active == probe.results[probe.round + 1]
           r == IF probe.pool = "serial"
                THEN SetDeviceSerialPort(EmptyDict, probe.ports, active)
                ELSE SetDevicePemPort(EmptyDict, probe.ports, active)
       IN  probe' = [probe EXCEPT !.round = @ + 1,
                                  !.ports = r.ports,
                                  !.dead = Append(@, r.dead),
                                  !.records = Append(@, r.device)]
    /\ UNCHANGED runVars

NextPools == AttributePort

SpecPools == InitPools /\ [][NextPools]_vars

(***************************************************************************)
(* Properties of a discovery run                                           *)
(***************************************************************************)
Has(dev, key) == key \in DOMAIN dev

\* the record carries this endpoint of the rack
Carries(dev, e) ==
    IF e.type = "PC"
    THEN /\ Has(dev, "id") /\ dev.id = e.mac
         /\ ~Has(dev, "edison_usb_port") /\ ~Has(dev, "network_subnet")
    ELSE /\ Has(dev, "edison_usb_port") /\ dev.edison_usb_port = e.usb_path
         /\ Has(dev, "network_subnet") /\ dev.network_subnet = e.subnet

\* the device files a record names, as serial or as PEM port
FilesOf(dev) ==
    (IF Has(dev, "serial_port") THEN {dev.serial_port[2]} ELSE {})
    \cup (IF Has(dev, "pem_port") THEN {dev.pem_port[2]} ELSE {})

RunFinished == pc = "create_configuration"

\* C1: on a faithful rack of N channels a finished run holds N records in
\* channel order, and the i-th record carries exactly the serial port, the
\* PEM port and the endpoint wired to the i-th channel.
C1_EliminationCorrectness ==
    (rack.ideal /\ RunFinished) =>
        /\ Len(_devices) = Len(rack.cutters)
        /\ \A i \in 1..Len(_devices) :
            /\ _devices[i].cutter = rack.cutters[i].cutter
            /\ _devices[i].channel = rack.cutters[i].channel
            /\ Has(_devices[i], "serial_port")
            /\ _devices[i].serial_port = DevPath(rack.serial[i])
            /\ Has(_devices[i], "pem_port")
            /\ _devices[i].pem_port = DevPath(rack.pem[i])
            /\ \A j \in 1..Len(rack.net) :
                  Carries(_devices[i], rack.net[j]) <=> rack.netch[j] = i

\* a faithful rack of NumChannels channels, wired out of order, was
\* discovered to the end
C1_Witness ==
    /\ rack.ideal /\ RunFinished
    /\ Len(_devices) = NumChannels
    /\ rack.netch[1] # 1
    /\ rack.pem[1] # TtyUSB(0)

\* C2: no serial port, PEM port or endpoint appears in more than one
\* record of the result list, whatever the rounds observed.
C2_AtMostOneRecord ==
    \A i, j \in 1..Len(_devices) :
        i # j =>
            /\ FilesOf(_devices[i]) \cap FilesOf(_devices[j]) = {}
            /\ \A e \in Range(rack.net) :
                  ~(Carries(_devices[i], e) /\ Carries(_devices[j], e))

\* two records of an unconstrained rack both hold a port and an endpoint
C2_Witness ==
    /\ ~rack.ideal
    /\ Len(_devices) >= 2
    /\ \A i \in 1..2 : FilesOf(_devices[i]) # {} /\ Has(_devices[i], "id")

\* the device files and endpoints attributed so far
AttributedFiles ==
    FilesOf(device) \cup UNION {FilesOf(_devices[i]) : i \in 1..Len(_devices)}

AttributedEndpoints ==
    {e \in Range(rack.net) :
        \/ Carries(device, e)
        \/ \E i \in 1..Len(_devices) : Carries(_devices[i], e)}

\* C3: once the rounds have begun no step adds anything to a pool, and what
\* was attributed is in no pool afterwards.
C3_PoolMonotonicity ==
    [][/\ idx >= 1 =>
            /\ Range(_serial_ports') \subseteq Range(_serial_ports)
            /\ Len(_serial_ports') <= Len(_serial_ports)
            /\ Range(_pem_ports') \subseteq Range(_pem_ports)
            /\ Len(_pem_ports') <= Len(_pem_ports)
            /\ Range(_network_configs') \subseteq Range(_network_configs)
            /\ Len(_network_configs') <= Len(_network_configs)
       /\ AttributedFiles' \cap
              (Range(_serial_ports') \cup Range(_pem_ports')) = {}
       /\ AttributedEndpoints' \cap Range(_network_configs') = {}]_vars

\* a later round begins after an earlier one took a port out of each pool
C3_Witness ==
    /\ ~rack.ideal
    /\ pc = "launch_pem" /\ idx = 2
    /\ Has(_devices[1], "serial_port") /\ Has(_devices[1], "pem_port")
    /\ Has(_devices[1], "id")
    /\ _serial_ports # <<>> /\ _network_configs # <<>>

\* the ports of a pool that the batch result no longer lists
Silent(ports, active_ports) ==
    {p \in Range(ports) : \A i \in DOMAIN active_ports : active_ports[i] # p}

SerialStep == pc = "serial" /\ pc' = "pem"

PemStep == pc = "pem" /\ pc' = "append"

AppendStep == pc = "append" /\ pc' \in {"disconnect", "create_configuration"}

\* C4: a round that finds more than one silent port in a pool leaves the
\* record without that attribute and the pool as it was, goes on to the
\* next step of the round, appends its record and passes to the next
\* channel.
C4_AmbiguityHandling ==
    [][/\ (SerialStep /\ Cardinality(Silent(_serial_ports,
                               Head(serial_results.queue))) > 1) =>
              /\ _serial_ports' = _serial_ports
              /\ device' = device
              /\ ~Has(device', "serial_port") /\ ~Has(device', "serial_bauds")
       /\ (PemStep /\ Cardinality(Silent(_pem_ports,
                               Head(pem_results.queue))) > 1) =>
              /\ _pem_ports' = _pem_ports
              /\ device' = device
              /\ ~Has(device', "pem_port") /\ ~Has(device', "pem_interface")
       /\ (AppendStep /\ (Cardinality(dead_ports.serial) > 1
                          \/ Cardinality(dead_ports.pem) > 1)) =>
              /\ _devices' = Append(_devices, device)
              /\ Cardinality(dead_ports.serial) > 1 =>
                    ~Has(device, "serial_port")
              /\ Cardinality(dead_ports.pem) > 1 =>
                    ~Has(device, "pem_port")
              /\ idx < Len(cutters) => (pc' = "disconnect" /\ idx' = idx + 1)
              /\ _serial_ports' = _serial_ports /\ _pem_ports' = _pem_ports]_vars

\* the round of channel 1 was ambiguous in the serial pool, its record is
\* in the list and channel 2 is about to be disconnected
C4_Witness ==
    /\ pc = "disconnect" /\ idx = 2
    /\ Cardinality(dead_ports.serial) > 1
    /\ Len(_devices) = 1 /\ ~Has(_devices[1], "serial_port")
    /\ Len(_serial_ports) >= 2

\* two ports of one pool went silent and the other pool lost at most one
TwoInOnePool ==
    \/ Cardinality(dead_ports.serial) = 2 /\ Cardinality(dead_ports.pem) <= 1
    \/ Cardinality(dead_ports.pem) = 2 /\ Cardinality(dead_ports.serial) <= 1

\* C5, as claimed: such a round emits exactly one warning-level event.
C5_OneWarning ==
    (pc = "append" /\ TwoInOnePool) => warnings = 1

\* C5, amended: such a round emits exactly two warning-level events, the
\* ambiguity message and the dump of the device dictionary.
C5_TwoWarnings ==
    (pc = "append" /\ TwoInOnePool) => warnings = 2

\* a round ends with two silent ports in the PEM pool and one in the
\* serial pool
C5_Witness ==
    /\ pc = "append"
    /\ Cardinality(dead_ports.pem) = 2
    /\ Cardinality(dead_ports.serial) <= 1

\* C6: a round that finds no silent port in a pool adds no attribute of
\* that kind, leaves the pool as it was, logs no warning and goes on.
C6_ZeroDisappearances ==
    [][/\ (SerialStep /\ Silent(_serial_ports,
                                Head(serial_results.queue)) = {}) =>
              /\ _serial_ports' = _serial_ports
              /\ device' = device
              /\ ~Has(device', "serial_port") /\ ~Has(device', "serial_bauds")
              /\ warnings' = warnings
       /\ (PemStep /\ Silent(_pem_ports, Head(pem_results.queue)) = {}) =>
              /\ _pem_ports' = _pem_ports
              /\ device' = device
              /\ ~Has(device', "pem_port") /\ ~Has(device', "pem_interface")
              /\ warnings' = warnings
       /\ (AppendStep /\ dead_ports.serial = {}) =>
              ~Has(_devices'[Len(_devices')], "serial_port")
       /\ (AppendStep /\ dead_ports.pem = {}) =>
              ~Has(_devices'[Len(_devices')], "pem_port")]_vars

\* a round over a non-empty serial pool found every member still active
C6_Witness ==
    /\ pc = "pem"
    /\ _serial_ports # <<>>
    /\ dead_ports.serial = {}
    /\ ~Has(device, "serial_port")
    /\ warnings = 0

NetworkStep == pc = "network" /\ pc' = "serial"

\* C10: the endpoints are tested in pool order up to the first one found
\* unreachable; that one is attributed and removed, nothing after it is
\* tested or removed; if all are reachable the pool is unchanged and the
\* record gets no id and no model.
C10_FirstMatch ==
    [][NetworkStep =>
        LET n == Len(checked')
            pool == _network_configs
        IN  /\ n <= Len(pool)
            /\ \A i \in 1..n : checked'[i].config = pool[i]
            /\ \A i \in 1..(n - 1) : checked'[i].reachable
            /\ IF n > 0 /\ ~checked'[n].reachable
               THEN /\ _network_configs' =
                          SubSeq(pool, 1, n - 1) \o SubSeq(pool, n + 1, Len(pool))
                    /\ Has(device', "id")
                    /\ Carries(device', pool[n])
                    /\ \A i \in 1..Len(pool) :
                          i # n => ~Carries(device', pool[i])
               ELSE /\ n = Len(pool)
                    /\ _network_configs' = pool
                    /\ device' = device
                    /\ ~Has(device', "id") /\ ~Has(device', "model")]_vars

\* the first endpoint of a pool of two was found unreachable: the second
\* was not tested and is still in the pool
C10_Witness ==
    /\ pc = "serial"
    /\ Len(checked) = 1 /\ ~checked[1].reachable
    /\ Len(_network_configs) >= 1
    /\ Has(device, "id")

(***************************************************************************)
(* Properties of a probe batch                                             *)
(***************************************************************************)
ProbeDone == probe.pc = "done"

ProbeUsb == UsbFiles(probe.files)

\* the worker on f has returned or raised by time t
EndedBy(f, t) ==
    ~probe.beh[f].hang /\ probe.out.start + probe.beh[f].dur <= t

\* C7: the list a batch puts on its queue holds exactly the ttyUSB
\* candidates whose worker had ended on its own when it was tested; every
\* worker found running is left out and terminated.
C7_ProbePolarity ==
    (ProbeDone /\ probe.out.put) =>
        LET w == probe.out.workers
        IN  /\ Len(w) = Len(ProbeUsb)
            /\ \A i \in 1..Len(w) :
                  /\ w[i].usb = ProbeUsb[i]
                  /\ w[i].checked >= probe.out.start + probe.wait
                  /\ ~EndedBy(ProbeUsb[i], w[i].checked) =>
                        /\ w[i].terminated
                        /\ ProbeUsb[i] \notin Range(probe.out.ports)
                  /\ EndedBy(ProbeUsb[i], w[i].checked) => ~w[i].terminated
            /\ Range(probe.out.ports) =
                  {ProbeUsb[i] : i \in {j \in 1..Len(w) :
                                          EndedBy(ProbeUsb[j], w[j].checked)}}
            /\ NoDuplicates(probe.out.ports)
            /\ \A f \in Range(probe.out.ports) : IsTtyUSB(f)

\* a batch reported one candidate and terminated the worker of another
C7_Witness ==
    /\ ProbeDone /\ probe.out.put
    /\ probe.out.ports # <<>>
    /\ \E i \in 1..Len(probe.out.workers) : probe.out.workers[i].terminated
    /\ OtherFile \in Range(probe.files)

\* C8, as claimed: an identifier is reported only if its worker ended
\* within the wait budget counted from the workers' start.
C8_WithinBudget ==
    (ProbeDone /\ probe.out.put) =>
        \A f \in Range(probe.out.ports) :
            EndedBy(f, probe.out.start + probe.wait)

\* the worker on f raises within the budget, or its file cannot be opened
ErrorsOut(f) ==
    \/ ~probe.beh[f].open
    \/ /\ probe.beh[f].exit = "error"
       /\ EndedBy(f, probe.out.start + probe.wait)

\* C9, as claimed: a worker that errors out is not reported active, and the
\* batch still delivers its list.
C9_ErrorIsNegative ==
    ProbeDone =>
        \A f \in Range(ProbeUsb) :
            ErrorsOut(f) =>
                probe.out.put /\ f \notin Range(probe.out.ports)

(***************************************************************************)
(* Properties of the order of a discovery run                              *)
(***************************************************************************)
\* the place of the first event of this kind, 0 if there is none
RECURSIVE PlaceFrom(_, _)
PlaceFrom(op, i) ==
    IF i > Len(events) THEN 0
    ELSE IF events[i].op = op THEN i
    ELSE PlaceFrom(op, i + 1)

Place(op) == PlaceFrom(op, 1)

\* the channels the cutters of the list switch
ListedChannels == {ChannelOf(cutters[i]) : i \in 1..Len(cutters)}

\* the cutter calls made after the baseline was taken
RoundCalls ==
    IF Place("serial_snapshot") = 0 THEN <<>>
    ELSE SelectSeq(SubSeq(events, Place("serial_snapshot") + 1, Len(events)),
                   LAMBDA e : e.op \in {"connect", "disconnect"})

\* C11, as claimed: a finished run has run one elimination round per
\* channel, in input order: after the baseline every channel was disconnected
\* exactly once, and the result list holds exactly one record per channel, in
\* channel order.
C11_OneRoundPerChannel ==
    RunFinished =>
        /\ \A ch \in ListedChannels :
              Cardinality({i \in 1..Len(RoundCalls) :
                              /\ RoundCalls[i].op = "disconnect"
                              /\ RoundCalls[i].ch = ch}) = 1
        /\ Len(_devices) = Cardinality(ListedChannels)
        /\ \A i \in 1..Len(_devices) :
              /\ i <= Len(cutters)
              /\ _devices[i].cutter = cutters[i].cutter
              /\ Has(cutters[i], "channel") =>
                    (/\ Has(_devices[i], "channel")
                     /\ _devices[i].channel = cutters[i].channel)

\* C12: once the baseline power cycle has connected the channels no cutter is
\* connected again, the channels of the rounds begun stay off, and when the
\* run has finished every channel of the list is off.
C12_CumulativePowerDown ==
    /\ LET launched == Place("launch_pem")
       IN  launched > 0 =>
               \A i \in (launched + 1)..Len(events) : events[i].op # "connect"
    /\ \A i \in 1..Len(cutters) :
          (idx >= 1 /\ (i < idx \/ (i = idx /\ pc # "disconnect")))
              => ~power[ChannelOf(cutters[i])]
    /\ RunFinished => \A ch \in ListedChannels : ~power[ch]

\* a run over NumChannels channels has finished and every channel is off
C12_Witness ==
    /\ RunFinished
    /\ Cardinality(ListedChannels) = NumChannels
    /\ \A ch \in ListedChannels : ~power[ch]
    /\ Len(RoundCalls) = NumChannels

\* the steps that take the baseline
BaselineSteps ==
    {"launch_pem", "net_snapshot", "pem_snapshot", "launch_serial",
     "serial_snapshot"}

\* the step the run took last, "" before the first
LastStep == IF events = <<>> THEN "" ELSE events[Len(events)].op

\* C13: when the timestamp of the window has just been taken every channel
\* of the list is off; when a baseline batch has just been launched or a
\* pool has just been read every channel is on again and the timestamp was
\* taken before; the first round disconnects a channel only when all of the
\* baseline has been taken.
C13_BaselineOrdering ==
    /\ LastStep = "timestamp" =>
          /\ idx = 0
          /\ \A ch \in ListedChannels : ~power[ch]
          /\ \A op \in BaselineSteps : Place(op) = 0
    /\ (LastStep \in BaselineSteps /\ Place(LastStep) = Len(events)) =>
          /\ idx \in {0, 1}
          /\ \A ch \in ListedChannels : power[ch]
          /\ Place("timestamp") > 0
          /\ Place("timestamp") < Place(LastStep)
          /\ \A i \in (Place("timestamp") + 1)..Len(events) :
                events[i].op # "disconnect"
    /\ (idx = 0 /\ (pem_results.proc = "running"
                     \/ serial_results.proc = "running"))
          => \A ch \in ListedChannels : power[ch]
    /\ (LastStep = "disconnect" /\ Place("timestamp") > 0) =>
          \A op \in BaselineSteps :
              /\ Place(op) > Place("timestamp")
              /\ Place(op) < Len(events)
    /\ idx >= 1 => \A op \in BaselineSteps : Place(op) > 0

\* the baseline of a rack with relays and Cleware sockets is complete and
\* the first round is about to disconnect a channel
C13_Witness ==
    /\ pc = "disconnect" /\ idx = 1
    /\ _timestamp > 1
    /\ _pem_ports # <<>> /\ _serial_ports # <<>> /\ _network_configs # <<>>
    /\ \A ch \in ListedChannels : power[ch]
    /\ \E i \in 1..Len(cutters) : cutters[i].type = "usbrelay"

(***************************************************************************)
(* Properties of _get_edison_configs (SpecEdison)                          *)
(***************************************************************************)
EdisonDone == probe.pc = "done"

\* the entry of the endpoint pool made from this line of the log
EntryOf(line) ==
    {e \in Range(probe.configs) : e.usb_path = line.usb_port}

\* C14: a line of the log whose seconds are at or before the window start
\* puts no endpoint in the pool and gets no opener, whatever it says; a line
\* that names an Edison in a later second puts exactly one endpoint there.
C14_TimestampFiltering ==
    EdisonDone =>
        \A i \in 1..Len(probe.lines) :
            LET line == probe.lines[i]
            IN  /\ line.sec <= probe.timestamp =>
                    /\ EntryOf(line) = {}
                    /\ line \notin Range(probe.out.lines)
                /\ (/\ line.sec > probe.timestamp
                     /\ line.text = EdisonText
                     /\ probe.out.returns) =>
                        /\ Cardinality(EntryOf(line)) = 1
                        /\ \A e \in EntryOf(line) : e.type = "edison"
                /\ line.text # EdisonText => EntryOf(line) = {}

\* a line that names an Edison in the second of the window start was left
\* out while a later one made an endpoint
C14_Witness ==
    /\ EdisonDone /\ probe.out.returns
    /\ probe.configs # <<>>
    /\ \E i \in 1..Len(probe.lines) :
          /\ probe.lines[i].text = EdisonText
          /\ probe.lines[i].sec = probe.timestamp

\* the lines of the log that name an Edison after the window start, as the
\* places they hold in the log
MatchingPlaces ==
    {i \in 1..Len(probe.lines) :
        /\ probe.lines[i].text = EdisonText
        /\ probe.lines[i].sec > probe.timestamp}

\* how many matching lines come before line i
MatchesBefore(i) == Cardinality({j \in MatchingPlaces : j < i})

\* C15: the opener of the k-th matching line, counted from 0, is given the
\* slot ip_start + 4k, so that the slots are pairwise distinct and grow with
\* the lines; the endpoint made from that line carries that slot.
C15_SubnetAllocation ==
    EdisonDone =>
        /\ Len(probe.out.openers) = Cardinality(MatchingPlaces)
        /\ \A i \in MatchingPlaces :
              /\ probe.out.openers[MatchesBefore(i) + 1].line = probe.lines[i]
              /\ probe.out.openers[MatchesBefore(i) + 1].subnet_ip
                    = IpStart + 4 * MatchesBefore(i)
              /\ \A e \in EntryOf(probe.lines[i]) :
                    e.subnet = <<SubnetPrefix, IpStart + 4 * MatchesBefore(i)>>
        /\ \A a, b \in 1..Len(probe.out.openers) :
              a < b => probe.out.openers[a].subnet_ip
                         < probe.out.openers[b].subnet_ip
        /\ \A a, b \in 1..Len(probe.configs) :
              a # b => probe.configs[a].subnet # probe.configs[b].subnet

\* two Edisons after the window start, the later one finishing first
C15_Witness ==
    /\ EdisonDone /\ probe.out.returns
    /\ Len(probe.configs) >= 2
    /\ probe.order[1] # 1
    /\ probe.configs[1].subnet[2] > probe.configs[2].subnet[2]

(***************************************************************************)
(* Properties of _create_configuration (SpecAssemble)                      *)
(***************************************************************************)
AssembleDone == probe.pc = "done"

\* the sections made from the i-th record
SectionsOf(i) ==
    {j \in 1..Len(probe.out.sections) : probe.out.sections[j].record = i}

\* C16, as claimed: for every list of records the assembled configuration
\* has exactly one section per record that has a model and none for a record
\* without one.
C16_ModelLessDrop ==
    AssembleDone =>
        /\ ~probe.out.raised
        /\ \A i \in 1..Len(probe.devices) :
              IF Has(probe.devices[i], "model")
              THEN Cardinality(SectionsOf(i)) = 1
              ELSE SectionsOf(i) = {}
        /\ \A j \in 1..Len(probe.out.sections) :
              probe.out.sections[j].record \in 1..Len(probe.devices)

\* how many records up to the i-th have the model of the i-th
NumberOf(i) ==
    Cardinality({j \in 1..i :
                    /\ Has(probe.devices[j], "model")
                    /\ probe.devices[j].model = probe.devices[i].model})

\* C17, as claimed: the k-th record with model M is written under the
\* section upper(M)_k, the numbers of a model running from 1 without a gap
\* and records without a model taking none.
C17_Sectioning ==
    AssembleDone =>
        \A i \in 1..Len(probe.devices) :
            Has(probe.devices[i], "model") =>
                /\ ~probe.out.raised
                /\ \E j \in SectionsOf(i) :
                      /\ probe.out.sections[j].name
                            = <<Upper(probe.devices[i].model), "_", NumberOf(i)>>
                      /\ probe.out.sections[j].items = probe.devices[i]

(***************************************************************************)
(* Properties of the waits and of the rounds of a discovery run            *)
(***************************************************************************)
\* the orchestrator waits in a call that takes no timeout for something
\* that will not come: p.join() or ip_queue.get() on an opener that raised
\* or blocks, or <queue>.get() on the queue of a batch process that died
WaitsForever ==
    \/ pc = "blocked"
    \/ /\ pc \in {"get_serial", "serial"}
       /\ serial_results.proc = "died" /\ serial_results.queue = <<>>
    \/ /\ pc \in {"get_pem", "pem"}
       /\ pem_results.proc = "died" /\ pem_results.queue = <<>>

\* C18, as claimed: no wait of the orchestrator is unbounded, even if a
\* batch process or an opener process dies without delivering a result.
C18_NoUnboundedWait == ~WaitsForever

\* C19, as claimed: a run that can take no further step of its own (only an
\* interrupt can end it) was interrupted or has assembled its configuration,
\* whatever the rounds observed.
C19_RunCompletes ==
    (~ENABLED (Next /\ pc' # "interrupted")) => pc \in {"done", "interrupted"}

\* the events of the round under way: from its disconnect on
RECURSIVE LastPlaceFrom(_, _)
LastPlaceFrom(op, i) ==
    IF i = 0 THEN 0
    ELSE IF events[i].op = op THEN i
    ELSE LastPlaceFrom(op, i - 1)

RoundEvents ==
    IF idx = 0 \/ (pc = "disconnect") \/ idx > Len(cutters) THEN <<>>
    ELSE SubSeq(events, LastPlaceFrom("disconnect", Len(events)), Len(events))

\* the place of a step in the round under way, 0 if it was not taken
RECURSIVE RoundPlaceFrom(_, _, _)
RoundPlaceFrom(round, op, i) ==
    IF i > Len(round) THEN 0
    ELSE IF round[i].op = op THEN i
    ELSE RoundPlaceFrom(round, op, i + 1)

RoundPlace(op) == RoundPlaceFrom(RoundEvents, op, 1)

\* C20: in a round both probe batches are launched before either result is
\* read, the endpoint attribution is done before the serial result is read,
\* and the serial result is read before the PEM result.
C20_RoundOrdering ==
    LET launch_pem == RoundPlace("launch_pem")
        launch_serial == RoundPlace("launch_serial")
        network == RoundPlace("network")
        get_serial == RoundPlace("get_serial")
        get_pem == RoundPlace("get_pem")
    IN  /\ get_serial > 0 =>
              /\ launch_pem > 0 /\ launch_pem < get_serial
              /\ launch_serial > 0 /\ launch_serial < get_serial
              /\ network > 0 /\ network < get_serial
        /\ get_pem > 0 => (get_serial > 0 /\ get_serial < get_pem)
        /\ (idx >= 1 /\ pc = "pem") => get_serial > 0
        /\ (idx >= 1 /\ pc = "append") => get_pem > 0
        /\ (idx >= 1 /\ pc = "network") =>
              (pem_results.proc # "none" /\ serial_results.proc # "none"
               /\ get_serial = 0 /\ get_pem = 0)

\* both batches of the second round were in flight while its endpoint was
\* attributed, and both results have been read
C20_Witness ==
    /\ idx = 2 /\ pc = "append"
    /\ RoundPlace("network") > 0
    /\ Has(device, "id") /\ Has(device, "serial_port") /\ Has(device, "pem_port")

(***************************************************************************)
(* Properties of the rounds and of the result queues                       *)
(***************************************************************************)
\* a batch was launched and its result has not been read
InFlight(batch) == batch.proc \in {"running", "died"} \/ batch.queue # <<>>

\* C21: when round n + 1 disconnects its channel, and as long as a batch of
\* round n + 1 is in flight, the records of the rounds 1..n are in the result
\* list, that of round n + 1 is not, exactly n + 1 channels were disconnected
\* since the baseline, and at the disconnect no earlier batch is in flight.
C21_SequentialRounds ==
    /\ (idx >= 1 /\ pc = "disconnect") =>
          /\ Len(_devices) = idx - 1
          /\ Len(RoundCalls) = idx - 1
          /\ ~InFlight(pem_results) /\ ~InFlight(serial_results)
    /\ (idx >= 1 /\ LastStep = "disconnect") =>
          /\ Len(_devices) = idx - 1
          /\ Len(RoundCalls) = idx
          /\ ~InFlight(pem_results) /\ ~InFlight(serial_results)
    /\ (idx >= 1 /\ (InFlight(pem_results) \/ InFlight(serial_results))) =>
          /\ Len(_devices) = idx - 1
          /\ Len(RoundCalls) = idx

\* the second round has just disconnected its channel: the record of the
\* first is in the list and both batches of the first were read
C21_Witness ==
    /\ idx = 2 /\ LastStep = "disconnect"
    /\ Len(_devices) = 1
    /\ pem_results.proc = "exited" /\ serial_results.proc = "exited"

\* a step inside the rounds
RoundStep == idx >= 1 /\ idx' >= 1

\* some pool is not what it was
PoolChanged ==
    \/ _network_configs' # _network_configs
    \/ _serial_ports' # _serial_ports
    \/ _pem_ports' # _pem_ports

\* C22 as stated: in the rounds no pool changes in a step after which a
\* launched batch is still unread.
C22_PoolsFrozenInFlight ==
    [][(RoundStep /\ PoolChanged) =>
          (~InFlight(pem_results') /\ ~InFlight(serial_results'))]_vars

\* C22: in the rounds the pools change only in the attribution steps of the
\* orchestrator, by the removal of one member: the endpoint pool in the
\* network step, the serial pool in the step that has read the serial result,
\* the PEM pool in the step that has read the PEM result, when no batch is
\* unread any more; the file list of a launched batch never changes until it
\* was read.
C22_PoolsMutatedByConsumer ==
    [][RoundStep =>
          /\ (_network_configs' # _network_configs) =>
                /\ pc = "network"
                /\ Len(_network_configs') = Len(_network_configs) - 1
                /\ Range(_network_configs') \subseteq Range(_network_configs)
          /\ (_serial_ports' # _serial_ports) =>
                /\ pc = "serial"
                /\ ~InFlight(serial_results')
                /\ Len(_serial_ports') = Len(_serial_ports) - 1
                /\ Range(_serial_ports') \subseteq Range(_serial_ports)
          /\ (_pem_ports' # _pem_ports) =>
                /\ pc = "pem"
                /\ ~InFlight(pem_results') /\ ~InFlight(serial_results')
                /\ Len(_pem_ports') = Len(_pem_ports) - 1
                /\ Range(_pem_ports') \subseteq Range(_pem_ports)
          /\ (InFlight(pem_results) /\ InFlight(pem_results')) =>
                pem_results'.files = pem_results.files
          /\ (InFlight(serial_results) /\ InFlight(serial_results')) =>
                serial_results'.files = serial_results.files]_vars

\* the serial result of a round was read and its port removed from the pool
\* while the PEM batch is unread; the endpoint pool had lost a member when
\* both batches were unread
C22_Witness ==
    /\ idx >= 1 /\ LastStep = "get_serial"
    /\ Cardinality(dead_ports.serial) = 1
    /\ Len(_serial_ports) < Len(serial_results.files)
    /\ \E i \in DOMAIN checked : ~checked[i].reachable
    /\ InFlight(pem_results)

\* the messages a batch process has put on its queue: one before it exits,
\* none when an exception ended it
Puts(batch) == IF batch.proc = "exited" THEN 1 ELSE 0

\* C23 as stated: a queue never holds more than the one message of its batch,
\* and a batch process that has ended has put exactly one message.
C23_OneMessagePerBatch ==
    \A batch \in {pem_results, serial_results} :
        /\ Len(batch.queue) <= 1
        /\ batch.proc \notin {"none", "running"} => Puts(batch) = 1

(***************************************************************************)
(* Properties of the cancellation in a probe batch                         *)
(***************************************************************************)
\* the time the join of the i-th worker began: the end of the sleep, or the
\* test of the worker before
JoinBegan(i) ==
    IF i = 1 THEN probe.out.start + probe.wait
    ELSE probe.out.workers[i - 1].checked

\* C24: when a batch has put its list, every worker it started was joined
\* for at most JoinTimeout and then either had ended on its own or was
\* terminated.
C24_Cancellation ==
    (ProbeDone /\ probe.out.put) =>
        LET w == probe.out.workers
        IN  /\ Len(w) = Len(probe.out.started)
            /\ \A i \in 1..Len(w) :
                  /\ w[i].usb = probe.out.started[i]
                  /\ w[i].checked - JoinBegan(i) \in 0..JoinTimeout
                  /\ w[i].terminated \/ EndedBy(w[i].usb, w[i].checked)

\* a batch of two workers: one was terminated after the whole grace join,
\* the other had ended on its own
C24_Witness ==
    /\ ProbeDone /\ probe.out.put
    /\ \E i, j \in 1..Len(probe.out.workers) :
          /\ probe.out.workers[i].terminated
          /\ probe.out.workers[i].checked = JoinBegan(i) + JoinTimeout
          /\ ~probe.out.workers[j].terminated
          /\ EndedBy(probe.out.workers[j].usb, probe.out.workers[j].checked)

\* C25 as stated: however a serial batch ends, every handle it opened was
\* closed and every worker it started had ended on its own or was
\* terminated.
C25_NoLeak ==
    (ProbeDone /\ probe.kind = "serial") =>
        /\ probe.out.closed = probe.out.opened
        /\ \A f \in Range(probe.out.started) :
              \E i \in 1..Len(probe.out.workers) :
                  /\ probe.out.workers[i].usb = f
                  /\ \/ probe.out.workers[i].terminated
                     \/ EndedBy(f, probe.out.workers[i].checked)

C27_InterruptDiscards ==
    /\ LastStep = "interrupt" <=> pc = "interrupted"
    /\ pc = "interrupted" => (topology_file = <<>> /\ ~ENABLED Next)
    /\ topology_file # <<>> =>
          /\ pc = "done"
          /\ idx = Len(cutters) + 1
          /\ Len(_devices) = Len(cutters)

\* the run was interrupted in its second round, after the network step and
\* with both batches unread: no file was written
C27_Witness ==
    /\ pc = "interrupted"
    /\ topology_file = <<>>
    /\ Len(events) >= 2 /\ events[Len(events) - 1].op = "network"
    /\ \E i \in 1..Len(events) : events[i].op = "append"

(***************************************************************************)
(* Properties of try_flash_model                                           *)
(***************************************************************************)
InFlash == probe.kind = "flash"

\* the places of the calls op in the list of calls
CallPlaces(op) == {i \in 1..Len(probe.calls) : probe.calls[i].op = op}

\* the places of the calls op made on device dev
CallPlacesOn(op, dev) == {i \in CallPlaces(op) : probe.calls[i].dev = dev}

\* the devices reserved so far
Reserved == {probe.calls[i].dev : i \in CallPlaces("reserve")}

\* the places of the attempts on dev that raised an exception
Failures(dev) ==
    {i \in CallPlacesOn("write_image", dev) :
        probe.calls[i].outcome = "error"}

\* C28: at most flash_retries write_image calls are made on a device, at most
\* device_retries devices are reserved and at most device_retries *
\* flash_retries attempts made; a successful attempt is the last call and its
\* device is returned; with noflash the first device is returned after its
\* reservation and no attempt is made.
C28_BoundedRetries ==
    InFlash =>
        /\ \A dev \in Reserved :
              Cardinality(CallPlacesOn("write_image", dev))
                  <= probe.flash_retries
        /\ Cardinality(CallPlaces("reserve")) <= probe.device_retries
        /\ Cardinality(CallPlaces("write_image"))
              <= probe.device_retries * probe.flash_retries
        /\ \A i \in CallPlaces("write_image") :
              probe.calls[i].outcome = "ok" =>
                  /\ i = Len(probe.calls)
                  /\ probe.pc = "returned"
                  /\ probe.returns = probe.calls[i].dev
        /\ (probe.noflash /\ probe.calls # <<>>) =>
              /\ probe.calls = <<DeviceCall("reserve", 1)>>
              /\ probe.pc = "returned" /\ probe.returns = 1

\* the first device failed flash_retries times, the second was flashed at
\* its last attempt and returned
C28_Witness ==
    /\ InFlash /\ probe.pc = "returned" /\ probe.returns = 2
    /\ probe.flash_retries >= 2
    /\ Cardinality(CallPlacesOn("write_image", 1)) = probe.flash_retries
    /\ Cardinality(CallPlacesOn("write_image", 2)) = probe.flash_retries
    /\ probe.calls[Len(probe.calls)].outcome = "ok"

\* C29 as stated: a reserved device is blacklisted exactly if flashing failed
\* flash_retries times on it; a blacklisted device is released at once and
\* before the next reservation; the exception is raised again exactly when
\* the last allowed device was blacklisted and released; an interrupted
\* attempt ends the function with no blacklisting after it.
C29_BlacklistOnExhaustion ==
    InFlash =>
        /\ \A dev \in Reserved :
              (CallPlacesOn("blacklist_device", dev) # {})
                  <=> (Cardinality(Failures(dev)) = probe.flash_retries)
        /\ \A i \in CallPlaces("blacklist_device") :
              /\ i < Len(probe.calls)
              /\ probe.calls[i + 1] = DeviceCall("release", probe.calls[i].dev)
        /\ \A i \in CallPlaces("reserve") :
              \A dev \in Reserved :
                  (dev < probe.calls[i].dev
                      /\ CallPlacesOn("blacklist_device", dev) # {})
                      => \E j \in CallPlacesOn("release", dev) : j < i
        /\ probe.pc = "raised" <=>
              /\ probe.device_attempt = probe.device_retries
              /\ probe.calls # <<>>
              /\ probe.calls[Len(probe.calls)]
                    = DeviceCall("release", probe.device_retries)
        /\ \A i \in CallPlaces("write_image") :
              probe.calls[i].outcome = "interrupt" =>
                  (i = Len(probe.calls) /\ probe.pc = "interrupted")

(***************************************************************************)
(* Properties of main                                                      *)
(***************************************************************************)
\* C30: however the body of main was left, when main has finished the flag
\* RECORDERS_STOP is set and every registered thread was joined once, with a
\* timeout of RecorderJoinTimeout seconds; no thread is joined before the
\* flag is set.
C30_RecordersStopped ==
    probe.kind = "main" =>
        /\ probe.pc = "finished" =>
              /\ probe.exit \in Exits
              /\ probe.flag = "RECORDERS_STOP"
              /\ Len(probe.joins) = Len(probe.threads)
              /\ \A i \in 1..Len(probe.threads) :
                    /\ probe.joins[i].thread = probe.threads[i]
                    /\ probe.joins[i].timeout = 5
        /\ probe.joins # <<>> => probe.flag = "RECORDERS_STOP"

\* main was left by the KeyboardInterrupt handler with MaxThreads threads
\* registered: all were joined, one of them still alive after its join
C30_Witness ==
    /\ probe.kind = "main" /\ probe.pc = "finished"
    /\ probe.exit.by = "KeyboardInterrupt"
    /\ Len(probe.threads) = MaxThreads
    /\ Len(probe.joins) = MaxThreads
    /\ \E i \in 1..Len(probe.joins) : probe.joins[i].alive

(***************************************************************************)
(* Properties of wait_for_responsive_ip_for_pc_device                      *)
(***************************************************************************)
InWait == probe.kind = "wait"

\* the places of the entries op in the log
LogPlaces(op) == {i \in 1..Len(probe.log) : probe.log[i].op = op}

\* the call has ended: by a return or by an exception
WaitEnded == InWait /\ probe.pc \in {"returned", "raised"}

\* floor(timeout / polling_interval), for a polling interval that is not 0
FloorOf(timeout, polling_interval) ==
    CHOOSE q \in 0..timeout :
        /\ q * polling_interval <= timeout
        /\ (q + 1) * polling_interval > timeout

\* what holds in every state of a call
WaitSafety ==
    InWait =>
        /\ probe.polling_interval > 0 =>
              Cardinality(LogPlaces("poll"))
                  <= FloorOf(probe.timeout, probe.polling_interval)
        /\ probe.polling_interval = 0 => probe.log = <<>>
        /\ \A i \in LogPlaces("sleep") :
              /\ probe.log[i].value = probe.polling_interval
              /\ i > 1 /\ probe.log[i - 1] = [op |-> "poll", value |-> 0]
        /\ \A i \in LogPlaces("poll") :
              IF probe.log[i].value = 0
              THEN i < Len(probe.log) /\ probe.log[i + 1].op = "sleep"
              ELSE /\ i = Len(probe.log)
                   /\ probe.pc = "returned"
                   /\ probe.returns = probe.log[i].value
        /\ (probe.pc = "returned"
              /\ \A i \in LogPlaces("poll") : probe.log[i].value = 0) =>
              /\ probe.returns = 0
              /\ Cardinality(LogPlaces("poll"))
                    = FloorOf(probe.timeout, probe.polling_interval)

\* C31: a call makes at most floor(timeout / polling_interval) polls, sleeps
\* polling_interval after each poll that found no address and only then,
\* returns the address of the first poll that found one right after that
\* poll, returns None after floor(timeout / polling_interval) polls without
\* an address, and always ends.
C31_BoundedPolling == []WaitSafety /\ <>WaitEnded

\* two polls found nothing and were followed by a sleep, the third found
\* the second leased address, which was returned
C31_Witness ==
    /\ InWait /\ probe.pc = "returned" /\ probe.returns = 2
    /\ Cardinality(LogPlaces("poll")) = 3
    /\ Cardinality(LogPlaces("sleep")) = 2

(***************************************************************************)
(* Properties of the pools and of the records                              *)
(***************************************************************************)
\* the device files the workers of a batch hold: those of a batch process
\* that runs, and of one that died and left its workers behind
HeldBy(batch) ==
    IF batch.proc \in {"running", "died"} THEN Range(UsbFiles(batch.files))
    ELSE {}

\* C32: no device file is held by the workers of the PEM batch and of the
\* serial batch at once; in the baseline the serial batch exists only when
\* the PEM batch has put its result and the result was read.
C32_NoSharedDeviceFile ==
    /\ HeldBy(pem_results) \cap HeldBy(serial_results) = {}
    /\ (idx = 0 /\ serial_results.proc # "none") =>
          (pem_results.proc = "exited" /\ pem_results.queue = <<>>)

\* a round has both batches running, each on a pool that is not empty
C32_Witness ==
    /\ idx >= 1
    /\ pem_results.proc = "running" /\ serial_results.proc = "running"
    /\ HeldBy(pem_results) # {} /\ HeldBy(serial_results) # {}

\* C33: the PEM pool and the serial pool share no port, and every port of
\* either pool is a ttyUSB device file of the listing taken at the baseline.
C33_PoolsDisjoint ==
    /\ Range(_pem_ports) \cap Range(_serial_ports) = {}
    /\ Range(_pem_ports) \cup Range(_serial_ports)
           \subseteq Range(UsbFiles(device_files))

\* rounds have removed ports from two pools that were not empty, and the
\* listing holds a device file that is no ttyUSB file
C33_Witness ==
    /\ idx >= 2
    /\ _pem_ports # <<>> /\ _serial_ports # <<>>
    /\ \E dev \in Range(_devices) : Has(dev, "pem_port")
    /\ \E dev \in Range(_devices) : Has(dev, "serial_port")
    /\ OtherFile \in Range(device_files)

(***************************************************************************)
(* Properties of successive rounds over one pool                           *)
(***************************************************************************)
InPools == probe.pc = "round" /\ probe.kind = "pools"

\* the ports of the pool as listed at the baseline that the batch result of
\* round k does not list
Quiet(k) == Range(probe.listed) \ Range(probe.results[k])

\* the port attribute of a pool
PortKey(pool) == IF pool = "serial" THEN "serial_port" ELSE "pem_port"

\* round k finds every port silent that round k - 1 found silent, and
\* exactly this one more
OneFurther(k, p) ==
    /\ p \notin Quiet(k - 1)
    /\ Quiet(k) = Quiet(k - 1) \cup {p}

\* C34: when a round found more than one silent port in the pool, a later
\* round in which exactly one further port of the pool goes silent gives
\* that port to its record.
C34_AmbiguityIsLocal ==
    InPools =>
        \A j \in 1..probe.round : \A k \in (j + 1)..probe.round :
        \A p \in Range(probe.listed) :
            (Cardinality(probe.dead[j]) > 1 /\ OneFurther(k, p)) =>
                /\ Has(probe.records[k], PortKey(probe.pool))
                /\ probe.records[k][PortKey(probe.pool)] = DevPath(p)

(***************************************************************************)
(* Properties of what reaches the configuration                            *)
(***************************************************************************)
\* the sections of the assembled configuration that name this device file
SectionsWithFile(f) ==
    {j \in 1..Len(configuration) : f \in FilesOf(configuration[j].items)}

\* the sections of the assembled configuration that carry this endpoint
SectionsWithEndpoint(e) ==
    {j \in 1..Len(configuration) : Carries(configuration[j].items, e)}

\* C35: when the configuration is assembled, every port that a round took
\* out of a pool and every endpoint that a round took out of the endpoint
\* list is in exactly one of its sections.
C35_NothingLost ==
    pc \in {"write_topology", "done"} =>
        /\ \A f \in AttributedFiles : Cardinality(SectionsWithFile(f)) = 1
        /\ \A e \in AttributedEndpoints :
              Cardinality(SectionsWithEndpoint(e)) = 1

\* the optional attributes of a record come in pairs
Paired(dev) ==
    /\ Has(dev, "serial_port") <=> Has(dev, "serial_bauds")
    /\ Has(dev, "serial_bauds") => dev.serial_bauds = 115200
    /\ Has(dev, "pem_port") <=> Has(dev, "pem_interface")
    /\ Has(dev, "pem_interface") => dev.pem_interface = "serialconnection"
    /\ Has(dev, "model") => Has(dev, "id")

\* C36: the record of the round and every record of the result list has a
\* serial port iff it has serial bauds, which are 115200, a PEM port iff it
\* has a PEM interface, which is "serialconnection", and an id when it has
\* a model.
C36_PairedAttributes ==
    /\ Paired(device)
    /\ \A i \in 1..Len(_devices) : Paired(_devices[i])

\* the result list holds a record with every optional attribute and a
\* record with none
C36_Witness ==
    /\ \E i \in 1..Len(_devices) :
          /\ Has(_devices[i], "serial_port") /\ Has(_devices[i], "pem_port")
          /\ Has(_devices[i], "model")
    /\ \E i \in 1..Len(_devices) :
          /\ ~Has(_devices[i], "serial_port") /\ ~Has(_devices[i], "pem_port")
          /\ ~Has(_devices[i], "model")

\* the section name the assembler makes for the i-th record, which has a
\* model
NameOf(i) == SectionName(probe.devices[i].model, NumberOf(i))

\* C37: for every list of records the section names of the records that
\* have a model are pairwise distinct and the assembling raises no
\* DuplicateSectionError, also when models differ only in letter case.
C37_DistinctSections ==
    (AssembleDone /\ probe.kind = "assemble") =>
        /\ ~probe.out.raised
        /\ \A i, j \in 1..Len(probe.devices) :
              (/\ i # j
               /\ Has(probe.devices[i], "model")
               /\ Has(probe.devices[j], "model")) => NameOf(i) # NameOf(j)

(***************************************************************************)
(* Properties of the cutter list                                           *)
(***************************************************************************)
\* C38: the list of cutters acquired for the run holds no channel twice.
C38_ChannelsOnce ==
    /\ NoDuplicates(cutters)
    /\ Len(cutters) = Cardinality(ListedChannels)

(***************************************************************************)
(* Properties of the reservations of main                                  *)
(***************************************************************************)
\* main has left its body: by return 0, by an exception or an interrupt
\* (of flashing, testing or detaching), or because try_flash_model ended
\* without a return value
MainLeft ==
    /\ probe.kind = "flash"
    /\ probe.pc \in {"exit", "raised", "interrupted", "returned_none"}

\* C39: when main has left its body every device it reserved has been
\* released after its reservation.
C39_ReleasedOnExit ==
    MainLeft =>
        \A i \in CallPlaces("reserve") :
            \E j \in CallPlacesOn("release", probe.calls[i].dev) : j > i

=============================================================================
